---- MODULE Spec2Model ----
(***************************************************************************)
(* Model of the document-indexing and caching pipeline of                  *)
(* streamlit_app_prompt_assist.py (and the older streamlit_app.py):        *)
(* compute_documents_hash, EnhancedDocumentProcessor, and                  *)
(* process_documents_with_caching, together with the language-model calls  *)
(* of the question handler in main().                                      *)
(*                                                                         *)
(* A documents directory is a function from the file names it lists to    *)
(* the bytes of each file.  SHA-256 is idealised as injective on the byte  *)
(* stream it is fed.  A PDF is abstracted as a header byte followed by one *)
(* byte per page, the byte giving the length of the page's text.           *)
(***************************************************************************)
EXTENDS Integers, Sequences, FiniteSets, TLC

VARIABLES
    dir,        \* DOCUMENTS_DIR: [listed file names -> bytes]
    disk,       \* VECTORSTORE_DIR: doc_vectorstore, chunk_vectorstore, documents_hash.txt
    call,       \* per session: the frame of process_documents_with_caching
    hist,       \* history of the cache: last persisted build, disturbance since
    fp,         \* fingerprint experiments (compute_documents_hash as a function)
    bd,         \* build experiments (create_hierarchical_vectorstore_with_progress)
    qa          \* question handler of main() and its language-model calls

vars == <<dir, disk, call, hist, fp, bd, qa>>

(***************************************************************************)
(* Bounds                                                                  *)
(***************************************************************************)
MaxFileLen == 2      \* longest file, in bytes, in the fingerprint and build experiments
MaxEdits == 2        \* corpus edits and cache disturbances in one behaviour
MaxQuestions == 2    \* questions asked in one behaviour

(***************************************************************************)
(* Values                                                                  *)
(***************************************************************************)
None == [none |-> TRUE]

Names == {"B.PDF", "a.pdf", "n.txt"}

\* str.lower() on the file names of the model
Lower(n) == CASE n = "B.PDF" -> "b.pdf" [] OTHER -> n

\* f.lower().endswith('.pdf')
IsPdf(n) == Lower(n) \in {"a.pdf", "b.pdf"}

\* Python orders str by code point: upper case before lower case
NameRank(n) == CASE n = "B.PDF" -> 1 [] n = "a.pdf" -> 2 [] OTHER -> 3

Byte == 0..4

RECURSIVE SeqsUpTo(_, _)
SeqsUpTo(S, n) ==
    IF n = 0 THEN {<<>>}
    ELSE LET shorter == SeqsUpTo(S, n - 1)
         IN  shorter \cup {Append(q, x) : q \in {r \in shorter : Len(r) = n - 1}, x \in S}

\* the set of enumeration orders of a finite set
RECURSIVE Perms(_)
Perms(S) ==
    IF S = {} THEN {<<>>}
    ELSE UNION {{<<x>> \o p : p \in Perms(S \ {x})} : x \in S}

Range(q) == {q[i] : i \in 1..Len(q)}

\* os.listdir(documents_dir): the names, in an order the file system chooses
ListDir(d) == Perms(DOMAIN d)

(***************************************************************************)
(* Content Fingerprinter                                                   *)
(***************************************************************************)
RECURSIVE Insert(_, _)
Insert(n, q) ==
    IF q = <<>> THEN <<n>>
    ELSE IF NameRank(n) <= NameRank(Head(q)) THEN <<n>> \o q
    ELSE <<Head(q)>> \o Insert(n, Tail(q))

\* a listing left in enumeration order
Unsorted(q) == q

\* sorted(list of names)
RECURSIVE Sorted(_)
Sorted(q) == IF q = <<>> THEN <<>> ELSE Insert(Head(q), Sorted(Tail(q)))

ReadBlock == 4096

\* iter(lambda: f.read(4096), b""): the blocks of one file
RECURSIVE FileBlocks(_)
FileBlocks(bytes) ==
    IF bytes = <<>> THEN <<>>
    ELSE IF Len(bytes) <= ReadBlock THEN <<bytes>>
    ELSE <<SubSeq(bytes, 1, ReadBlock)>> \o FileBlocks(SubSeq(bytes, ReadBlock + 1, Len(bytes)))

\* hash_object.update(chunk) for every block
RECURSIVE UpdateAll(_, _)
UpdateAll(stream, blocks) ==
    IF blocks = <<>> THEN stream
    ELSE UpdateAll(stream \o Head(blocks), Tail(blocks))

\* the byte stream fed to the hash for the files named in q, in that order
RECURSIVE HashStream(_, _, _)
HashStream(d, q, stream) ==
    IF q = <<>> THEN stream
    ELSE HashStream(d, Tail(q), UpdateAll(stream, FileBlocks(d[Head(q)])))

\* hash_object.hexdigest(), SHA-256 taken as collision-free
hexdigest(stream) == [sha256 |-> stream]

\* streamlit_app_prompt_assist.py: filter the listing, sort it, hash the files
compute_documents_hash(d, listing) ==
    LET pdf_files == Sorted(SelectSeq(listing, IsPdf))
    IN  hexdigest(HashStream(d, pdf_files, <<>>))

\* streamlit_app.py: sort the listing, hash the files that are PDFs
compute_documents_hash_app(d, listing) ==
    hexdigest(HashStream(d, SelectSeq(Sorted(listing), IsPdf), <<>>))

(***************************************************************************)
(* Text Extractor                                                          *)
(***************************************************************************)
\* first byte of a file PdfReader accepts
Magic == 4

\* characters of text on a page, by the byte that stands for the page
PageLen(b) == CASE b = 0 -> 0 [] b = 1 -> 30 [] b = 2 -> 70 [] b = 3 -> 120 [] OTHER -> 600

\* PdfReader(pdf_file) raises on a file that is not a PDF
ReaderRaises(bytes) == bytes = <<>> \/ Head(bytes) # Magic

\* pdf_reader.pages: the text length of every page, in page order
ReaderPages(bytes) == [i \in 1..(Len(bytes) - 1) |-> PageLen(bytes[i + 1])]

\* pages_data of extract_text_with_metadata: pages with text, numbered from 1;
\* text is the number of characters of the page and paras the lengths of its
\* paragraphs (a page of the corpus is one unbroken paragraph)
RECURSIVE PagesFrom(_, _, _)
PagesFrom(pages, page_num, filename) ==
    IF page_num >= Len(pages) THEN <<>>
    ELSE LET text == pages[page_num + 1]
             rest == PagesFrom(pages, page_num + 1, filename)
         IN  IF text > 0
             THEN <<[text |-> text, paras |-> <<text>>, page |-> page_num + 1,
                     filename |-> filename]>> \o rest
             ELSE rest

extract_text_with_metadata(bytes, filename) == PagesFrom(ReaderPages(bytes), 0, filename)

(***************************************************************************)
(* Chunker                                                                 *)
(***************************************************************************)
\* a text is the sequence of the lengths of its paragraphs; a paragraph is a
\* run of characters without separators, and "\n\n" stands between paragraphs
ParaSep == 2

RECURSIVE SumLens(_)
SumLens(paras) == IF paras = <<>> THEN 0 ELSE Head(paras) + SumLens(Tail(paras))

\* len(text)
TextLen(paras) == IF paras = <<>> THEN 0 ELSE SumLens(paras) + ParaSep * (Len(paras) - 1)

\* chunk_size and chunk_overlap of the adaptive strategy, with 500 taken as small
ChunkPolicyInclusive(len) ==
    IF len <= 500 THEN [chunk_size |-> 300, chunk_overlap |-> 50]
    ELSE IF len < 2000 THEN [chunk_size |-> 600, chunk_overlap |-> 100]
    ELSE [chunk_size |-> 1200, chunk_overlap |-> 200]

\* chunk_size and chunk_overlap of the adaptive strategy
ChunkPolicy(len) ==
    IF len < 500 THEN [chunk_size |-> 300, chunk_overlap |-> 50]
    ELSE IF len < 2000 THEN [chunk_size |-> 600, chunk_overlap |-> 100]
    ELSE [chunk_size |-> 1200, chunk_overlap |-> 200]

\* the splits at "\n\n", the separator kept at the front of the split that
\* follows it: start and len count the separator, lead is its length
RECURSIVE Pieces(_, _, _)
Pieces(paras, offset, lead) ==
    IF paras = <<>> THEN <<>>
    ELSE <<[start |-> offset, len |-> lead + Head(paras), lead |-> lead]>>
             \o Pieces(Tail(paras), offset + lead + Head(paras), ParaSep)

RECURSIVE TotalLen(_)
TotalLen(current) == IF current = <<>> THEN 0 ELSE Head(current).len + TotalLen(Tail(current))

\* the splits of current joined and stripped: a span of the text
Joined(current) ==
    LET first == Head(current)
        last == current[Len(current)]
    IN  [start |-> first.start + first.lead,
         size |-> (last.start + last.len) - (first.start + first.lead)]

\* the splits kept as overlap when a chunk is closed before a split of len
RECURSIVE DropFront(_, _, _, _)
DropFront(current, len, size, overlap) ==
    IF TotalLen(current) > overlap \/ (TotalLen(current) + len > size /\ TotalLen(current) > 0)
    THEN DropFront(Tail(current), len, size, overlap)
    ELSE current

\* the splits shorter than chunk_size merged into chunks of at most chunk_size
RECURSIVE MergeSplits(_, _, _, _)
MergeSplits(splits, current, size, overlap) ==
    IF splits = <<>> THEN IF current = <<>> THEN <<>> ELSE <<Joined(current)>>
    ELSE LET d == Head(splits)
         IN  IF TotalLen(current) + d.len > size /\ current # <<>>
             THEN <<Joined(current)>>
                      \o MergeSplits(Tail(splits),
                                     Append(DropFront(current, d.len, size, overlap), d),
                                     size, overlap)
             ELSE MergeSplits(Tail(splits), Append(current, d), size, overlap)

\* windows that advance by chunk_size + chunk_overlap
RECURSIVE SplitFromGapped(_, _, _, _)
SplitFromGapped(start, len, size, overlap) ==
    IF len - start <= size
    THEN IF len - start > 0 THEN <<[start |-> start, size |-> len - start]>> ELSE <<>>
    ELSE <<[start |-> start, size |-> size]>>
             \o SplitFromGapped(start + size + overlap, len, size, overlap)

\* a run of characters without separators, from start up to len: windows of
\* chunk_size characters that advance by chunk_size - chunk_overlap
RECURSIVE SplitFrom(_, _, _, _)
SplitFrom(start, len, size, overlap) ==
    IF len - start <= size
    THEN IF len - start > 0 THEN <<[start |-> start, size |-> len - start]>> ELSE <<>>
    ELSE <<[start |-> start, size |-> size]>> \o SplitFrom(start + size - overlap, len, size, overlap)

\* the splits in order: the short ones are collected and merged, a split of
\* chunk_size or more closes the collection and is cut into windows
RECURSIVE SplitPieces(_, _, _, _)
SplitPieces(pieces, goods, size, overlap) ==
    IF pieces = <<>> THEN MergeSplits(goods, <<>>, size, overlap)
    ELSE LET p == Head(pieces)
         IN  IF p.len < size
             THEN SplitPieces(Tail(pieces), Append(goods, p), size, overlap)
             ELSE MergeSplits(goods, <<>>, size, overlap)
                      \o SplitFrom(p.start + p.lead, p.start + p.len, size, overlap)
                      \o SplitPieces(Tail(pieces), <<>>, size, overlap)

\* RecursiveCharacterTextSplitter.split_text: the spans of the chunks
split_text(paras, size, overlap) == SplitPieces(Pieces(paras, 0, 0), <<>>, size, overlap)

\* smart_chunking(text, metadata, 'adaptive'); the text of a chunk is given
\* by the span of the page it was cut from
smart_chunking(page_data) ==
    LET policy == ChunkPolicy(page_data.text)
        chunks == split_text(page_data.paras, policy.chunk_size, policy.chunk_overlap)
    IN  [i \in 1..Len(chunks) |->
            [text |-> chunks[i],
             filename |-> page_data.filename, page |-> page_data.page,
             chunk_id |-> i - 1, chunk_size |-> chunks[i].size,
             total_chunks |-> Len(chunks)]]

(***************************************************************************)
(* Summarizer and Index Builder                                            *)
(***************************************************************************)
SummaryInputMax == 4000

\* create_document_summary: one llm.invoke, and on its failure the fallback
\* text made of the first characters of the document
create_document_summary(text, filename, llm_ok) ==
    LET sent == IF text > SummaryInputMax THEN SummaryInputMax + 3 ELSE text
    IN  IF llm_ok
        THEN [filename |-> filename, kind |-> "Summary", prompt_chars |-> sent]
        ELSE [filename |-> filename, kind |-> "Content", prompt_chars |-> sent]

RECURSIVE SumText(_)
SumText(pages_data) ==
    IF pages_data = <<>> THEN 0 ELSE Head(pages_data).text + SumText(Tail(pages_data))

\* len(" ".join(page['text'] for page in pages_data))
FullTextLen(pages_data) == SumText(pages_data) + (Len(pages_data) - 1)

MinDocChars == 50
MinPageChars == 100
MinChunkChars == 50

\* a filter that lets every chunk into the index
KeepChunkAny(chunk_doc) == TRUE

\* line 839: the chunks that go into the index
KeepChunk(chunk_doc) == chunk_doc.chunk_size > MinChunkChars

\* lines 832-841: the chunks one page adds to all_chunks / all_chunk_metadata
PageChunks(page_data) ==
    IF page_data.text < MinPageChars THEN <<>>
    ELSE SelectSeq(smart_chunking(page_data), KeepChunk)

\* the chunks one document adds to all_chunks / all_chunk_metadata
RECURSIVE DocChunks(_)
DocChunks(pages_data) ==
    IF pages_data = <<>> THEN <<>>
    ELSE PageChunks(Head(pages_data)) \o DocChunks(Tail(pages_data))

\* a loop without the try/except: the first extraction error loses the build
RECURSIVE BuildLoopAborting(_, _, _, _)
BuildLoopAborting(d, pdf_files, llm, acc) ==
    IF pdf_files = <<>> THEN acc
    ELSE LET pdf_file == Head(pdf_files)
             pages_data == extract_text_with_metadata(d[pdf_file], pdf_file)
             full_text == FullTextLen(pages_data)
         IN  IF ReaderRaises(d[pdf_file])
             THEN [acc EXCEPT !.doc_summaries = <<>>, !.all_chunks = <<>>]
             ELSE IF pages_data = <<>> \/ full_text < MinDocChars
             THEN BuildLoopAborting(d, Tail(pdf_files), llm, acc)
             ELSE BuildLoopAborting(d, Tail(pdf_files), llm,
                      [acc EXCEPT
                          !.doc_summaries = Append(@,
                              [text |-> create_document_summary(full_text, pdf_file, llm[pdf_file]),
                               metadata |-> [filename |-> pdf_file, type |-> "document_summary",
                                             page_count |-> Len(pages_data),
                                             total_chars |-> full_text]]),
                          !.llm_calls = Append(@, pdf_file),
                          !.all_chunks = @ \o DocChunks(pages_data)])

\* the for loop over pdf_files (lines 807-845); acc holds the four lists,
\* the st.warning calls, and the llm.invoke calls made
RECURSIVE BuildLoop(_, _, _, _)
BuildLoop(d, pdf_files, llm, acc) ==
    IF pdf_files = <<>> THEN acc
    ELSE LET pdf_file == Head(pdf_files)
             pages_data == extract_text_with_metadata(d[pdf_file], pdf_file)
             full_text == FullTextLen(pages_data)
         IN  IF ReaderRaises(d[pdf_file])
             THEN BuildLoop(d, Tail(pdf_files), llm, [acc EXCEPT !.warnings = Append(@, pdf_file)])
             ELSE IF pages_data = <<>> \/ full_text < MinDocChars
             THEN BuildLoop(d, Tail(pdf_files), llm, acc)
             ELSE BuildLoop(d, Tail(pdf_files), llm,
                      [acc EXCEPT
                          !.doc_summaries = Append(@,
                              [text |-> create_document_summary(full_text, pdf_file, llm[pdf_file]),
                               metadata |-> [filename |-> pdf_file, type |-> "document_summary",
                                             page_count |-> Len(pages_data),
                                             total_chars |-> full_text]]),
                          !.llm_calls = Append(@, pdf_file),
                          !.all_chunks = @ \o DocChunks(pages_data)])

BatchThreshold == 1000
BatchSize == 500

\* FAISS.from_texts of successive batches, merged with merge_from
RECURSIVE MergeBatches(_, _)
MergeBatches(store, rest) ==
    IF rest = <<>> THEN store
    ELSE LET n == IF Len(rest) < BatchSize THEN Len(rest) ELSE BatchSize
         IN  MergeBatches(store \o SubSeq(rest, 1, n), SubSeq(rest, n + 1, Len(rest)))

\* the chunk-level index (lines 862-891)
ChunkStore(all_chunks) ==
    IF Len(all_chunks) > BatchThreshold THEN MergeBatches(<<>>, all_chunks) ELSE all_chunks

EmptyAcc ==
    [doc_summaries |-> <<>>, all_chunks |-> <<>>, warnings |-> <<>>, llm_calls |-> <<>>]

\* create_hierarchical_vectorstore_with_progress: listing is what os.listdir
\* returns, llm tells for each file whether its summary call succeeds, and
\* embed_ok whether the embedding service answers FAISS.from_texts
create_hierarchical_vectorstore_with_progress(d, listing, llm, embed_ok) ==
    LET pdf_files == SelectSeq(listing, IsPdf)
        acc == BuildLoop(d, pdf_files, llm, EmptyAcc)
        no_valid == acc.doc_summaries = <<>> \/ acc.all_chunks = <<>>
        failed == no_valid \/ ~embed_ok
    IN  [raised |-> failed,
         no_valid_documents |-> no_valid,
         doc_vectorstore |-> IF failed THEN <<>> ELSE acc.doc_summaries,
         chunk_vectorstore |-> IF failed THEN <<>> ELSE ChunkStore(acc.all_chunks),
         warnings |-> acc.warnings,
         llm_calls |-> acc.llm_calls]

(***************************************************************************)
(* Index Cache: process_documents_with_caching, one step per statement     *)
(* that reads or writes the documents directory or the cache root          *)
(***************************************************************************)
\* the browser sessions that run the application
Sessions == {"s1"}

PdfNames == {n \in Names : IsPdf(n)}

\* the files the corpus editor puts into the documents directory
CorpusFiles == {<<>>, <<4>>, <<3>>, <<4, 3>>}

Artifacts == {"doc_vectorstore", "chunk_vectorstore", "documents_hash.txt"}

\* index is the index streamlit_app.py saves into the cache root itself
\* (index.faiss and index.pkl), vectorstore_index the file vectorstore.index
EmptyDisk ==
    [doc_vectorstore |-> None, chunk_vectorstore |-> None, documents_hash |-> None,
     index |-> None, vectorstore_index |-> None]

\* a frame before the call: the locals of process_documents_with_caching,
\* then what the call has observed and done so far
IdleFrame ==
    [pc |-> "idle", current_hash |-> None, saved_hash |-> None, total_files |-> 0,
     doc_vectorstore |-> None, chunk_vectorstore |-> None,
     result |-> "none", ret |-> None,
     start_dir |-> None, base_dir |-> None, seen |-> None, load_raised |-> FALSE,
     fault |-> FALSE, summary_calls |-> <<>>, summary_failures |-> <<>>,
     invoked |-> FALSE, built_from |-> None, writes |-> <<>>,
     in_succession |-> FALSE, undisturbed |-> FALSE]

\* raced tells that the documents directory or the cache root was changed
\* from outside while a call was under way
NoHistory == [persisted |-> None, quiet |-> FALSE, edits |-> 0, raced |-> FALSE]

PdfFilesOf(d) == {n \in DOMAIN d : IsPdf(n)}

\* a write to the cache root by session s, as the other sessions see it
Disturb(c, s) ==
    [t \in DOMAIN c |->
        IF t = s THEN c[t]
        ELSE [c[t] EXCEPT !.in_succession = FALSE, !.undisturbed = FALSE]]

Returning(f, result, ret) == [f EXCEPT !.pc = "returned", !.result = result, !.ret = ret]

\* lines 961-963: the fingerprint of the documents directory
Call(s) ==
    /\ call[s].pc = "idle"
    /\ \E listing \in ListDir(dir) :
          call' = [call EXCEPT ![s] =
                      [@ EXCEPT !.pc = "check",
                                !.current_hash = compute_documents_hash(dir, listing),
                                !.start_dir = dir,
                                !.base_dir = IF hist.persisted = None THEN None
                                             ELSE hist.persisted.dir,
                                !.in_succession = hist.quiet,
                                !.undisturbed = TRUE]]
    /\ UNCHANGED <<dir, disk, hist, fp, bd, qa>>

\* lines 955-956, 964-966: listing or reading the directory raised
CallHashError(s) ==
    /\ call[s].pc = "idle"
    /\ call' = [call EXCEPT ![s] = Returning([@ EXCEPT !.start_dir = dir, !.fault = TRUE], "hash_error", None)]
    /\ UNCHANGED <<dir, disk, hist, fp, bd, qa>>

\* lines 973-975
CachePresent(seen) ==
    seen.doc_vectorstore /\ seen.chunk_vectorstore /\ seen.documents_hash # None

\* the comparison of line 980 with the fingerprints taken as equal always
HashMatchesAlways(saved_hash, current_hash) == TRUE

\* the comparison of line 980 with the fingerprints taken as different always
HashMatchesNever(saved_hash, current_hash) == FALSE

\* line 980
HashMatches(saved_hash, current_hash) == saved_hash = current_hash

\* lines 973-980: presence of the three artifacts, then the stored fingerprint
CheckCache(s) ==
    /\ call[s].pc = "check"
    /\ LET seen == [doc_vectorstore |-> disk.doc_vectorstore # None,
                    chunk_vectorstore |-> disk.chunk_vectorstore # None,
                    documents_hash |-> disk.documents_hash]
           saved_hash == IF CachePresent(seen) THEN disk.documents_hash ELSE None
       IN  call' = [call EXCEPT ![s] =
                      [@ EXCEPT !.seen = seen,
                                !.saved_hash = saved_hash,
                                !.pc = IF CachePresent(seen)
                                          /\ HashMatches(saved_hash, call[s].current_hash)
                                       THEN "load_doc" ELSE "list"]]
    /\ UNCHANGED <<dir, disk, hist, fp, bd, qa>>

\* FAISS.load_local raises on a missing or damaged index directory
LoadRaises(store) == store = None \/ store.corrupt

\* a load error that ends the call with a failure
OnLoadRaisedFail(f) == Returning([f EXCEPT !.load_raised = TRUE], "load_error", None)

\* lines 996-997: the except branch falls through to the rebuild
OnLoadRaised(f) == [f EXCEPT !.pc = "list", !.load_raised = TRUE]

\* lines 984-988
LoadDoc(s) ==
    /\ call[s].pc = "load_doc"
    /\ call' = [call EXCEPT ![s] =
                  IF LoadRaises(disk.doc_vectorstore)
                  THEN OnLoadRaised(@)
                  ELSE [@ EXCEPT !.pc = "load_chunk", !.doc_vectorstore = disk.doc_vectorstore]]
    /\ UNCHANGED <<dir, disk, hist, fp, bd, qa>>

\* lines 989-995
LoadChunk(s) ==
    /\ call[s].pc = "load_chunk"
    /\ call' = [call EXCEPT ![s] =
                  IF LoadRaises(disk.chunk_vectorstore)
                  THEN OnLoadRaised(@)
                  ELSE Returning([@ EXCEPT !.chunk_vectorstore = disk.chunk_vectorstore],
                                 "loaded",
                                 [doc_vectorstore |-> @.doc_vectorstore,
                                  chunk_vectorstore |-> disk.chunk_vectorstore])]
    /\ UNCHANGED <<dir, disk, hist, fp, bd, qa>>

\* lines 1000-1005
ListPdfs(s) ==
    /\ call[s].pc = "list"
    /\ LET total_files == Cardinality(PdfFilesOf(dir))
       IN  call' = [call EXCEPT ![s] =
                      IF total_files = 0
                      THEN Returning([@ EXCEPT !.total_files = 0], "no_pdf", None)
                      ELSE [@ EXCEPT !.total_files = total_files, !.pc = "build"]]
    /\ UNCHANGED <<dir, disk, hist, fp, bd, qa>>

\* lines 1013-1015, 1030-1034
Build(s) ==
    /\ call[s].pc = "build"
    /\ \E listing \in ListDir(dir), llm \in [DOMAIN dir -> BOOLEAN], embed_ok \in BOOLEAN :
          LET r == create_hierarchical_vectorstore_with_progress(dir, listing, llm, embed_ok)
          IN  call' = [call EXCEPT ![s] =
                         IF r.raised
                         THEN Returning([@ EXCEPT !.invoked = TRUE, !.built_from = dir,
                                                  !.summary_calls = r.llm_calls,
                                                  !.summary_failures =
                                                      SelectSeq(r.llm_calls, LAMBDA n : ~llm[n]),
                                                  !.fault = ~embed_ok],
                                        "build_error", None)
                         ELSE [@ EXCEPT !.invoked = TRUE, !.built_from = dir,
                                        !.summary_calls = r.llm_calls,
                                        !.summary_failures =
                                            SelectSeq(r.llm_calls, LAMBDA n : ~llm[n]),
                                        !.pc = "save_doc",
                                        !.doc_vectorstore =
                                            [entries |-> r.doc_vectorstore, from |-> dir,
                                             corrupt |-> FALSE],
                                        !.chunk_vectorstore =
                                            [entries |-> r.chunk_vectorstore, from |-> dir,
                                             corrupt |-> FALSE]]]
    /\ UNCHANGED <<dir, disk, hist, fp, bd, qa>>

Written(artifact, value) == [artifact |-> artifact, value |-> value]

\* line 1017 (and 1030-1034 when save_local raises)
SaveDoc(s) ==
    /\ call[s].pc = "save_doc"
    /\ \E saved \in BOOLEAN :
          IF saved
          THEN /\ disk' = [disk EXCEPT !.doc_vectorstore = call[s].doc_vectorstore]
               /\ call' = [Disturb(call, s) EXCEPT ![s] =
                              [@ EXCEPT !.pc = "save_chunk",
                                        !.writes = Append(@, Written("doc_vectorstore",
                                                                     call[s].doc_vectorstore))]]
               /\ hist' = [hist EXCEPT !.quiet = FALSE]
          ELSE /\ call' = [call EXCEPT ![s] =
                              Returning([@ EXCEPT !.fault = TRUE], "build_error", None)]
               /\ UNCHANGED <<disk, hist>>
    /\ UNCHANGED <<dir, fp, bd, qa>>

\* line 1018 (and 1030-1034 when save_local raises)
SaveChunk(s) ==
    /\ call[s].pc = "save_chunk"
    /\ \E saved \in BOOLEAN :
          IF saved
          THEN /\ disk' = [disk EXCEPT !.chunk_vectorstore = call[s].chunk_vectorstore]
               /\ call' = [Disturb(call, s) EXCEPT ![s] =
                              [@ EXCEPT !.pc = "write_hash",
                                        !.writes = Append(@, Written("chunk_vectorstore",
                                                                     call[s].chunk_vectorstore))]]
               /\ hist' = [hist EXCEPT !.quiet = FALSE]
          ELSE /\ call' = [call EXCEPT ![s] =
                              Returning([@ EXCEPT !.fault = TRUE], "build_error", None)]
               /\ UNCHANGED <<disk, hist>>
    /\ UNCHANGED <<dir, fp, bd, qa>>

\* the stored fingerprint written back instead of the computed one
HashToWriteStale(f) == f.saved_hash

\* line 1021: f.write(current_hash)
HashToWrite(f) == f.current_hash

\* lines 1020-1021 (and 1030-1034 when the write raises)
WriteHash(s) ==
    /\ call[s].pc = "write_hash"
    /\ \E written \in BOOLEAN :
          IF written
          THEN /\ disk' = [disk EXCEPT !.documents_hash = HashToWrite(call[s])]
               /\ call' = [Disturb(call, s) EXCEPT ![s] =
                              [@ EXCEPT !.pc = "finish",
                                        !.writes = Append(@, Written("documents_hash.txt",
                                                                     HashToWrite(call[s])))]]
               /\ hist' = [hist EXCEPT
                              !.quiet = call[s].undisturbed,
                              !.persisted = [dir |-> call[s].built_from,
                                             doc_vectorstore |-> call[s].doc_vectorstore,
                                             chunk_vectorstore |-> call[s].chunk_vectorstore]]
          ELSE /\ call' = [call EXCEPT ![s] =
                              Returning([@ EXCEPT !.fault = TRUE], "build_error", None)]
               /\ UNCHANGED <<disk, hist>>
    /\ UNCHANGED <<dir, fp, bd, qa>>

\* lines 1023-1028
Finish(s) ==
    /\ call[s].pc = "finish"
    /\ call' = [call EXCEPT ![s] =
                  Returning(@, "built",
                            [doc_vectorstore |-> @.doc_vectorstore,
                             chunk_vectorstore |-> @.chunk_vectorstore])]
    /\ UNCHANGED <<dir, disk, hist, fp, bd, qa>>

\* session_defaults (lines 1464-1476), with the Q&A log file, which outlives
\* the session, and the number of questions asked so far
FreshSession ==
    [doc_vectorstore |-> None, chunk_vectorstore |-> None,
     custom_vectorstore |-> None,
     kb_selection |-> "Existing Knowledge Base", conversation_chain |-> None,
     chat_history |-> <<>>, qa_history_file |-> <<>>,
     pc |-> "idle", question |-> None, before |-> None, last |-> None, asked |-> 0]

\* the session ends; the next session of this slot starts with no indexes
\* (session_defaults, lines 1464-1466, 1779)
NewSession(s) ==
    /\ call[s].pc = "returned"
    /\ qa # None => qa.pc = "idle"
    /\ call' = [call EXCEPT ![s] = IdleFrame]
    /\ qa' = IF qa = None THEN None
             ELSE [FreshSession EXCEPT !.qa_history_file = qa.qa_history_file,
                                       !.asked = qa.asked]
    /\ UNCHANGED <<dir, disk, hist, fp, bd>>

(***************************************************************************)
(* The environment: the corpus editor and damage to the cache root         *)
(***************************************************************************)
Disturbed ==
    [hist EXCEPT !.quiet = FALSE, !.edits = @ + 1,
                 !.raced = @ \/ \E t \in DOMAIN call : call[t].pc \notin {"idle", "returned"}]

AllDisturbed ==
    [t \in DOMAIN call |->
        [call[t] EXCEPT !.in_succession = FALSE, !.undisturbed = FALSE]]

Without(d, n) == [m \in DOMAIN d \ {n} |-> d[m]]

With(d, n, bytes) == [m \in DOMAIN d \cup {n} |-> IF m = n THEN bytes ELSE d[m]]

AddPdf ==
    /\ hist.edits < MaxEdits
    /\ \E n \in PdfNames \ DOMAIN dir, bytes \in CorpusFiles : dir' = With(dir, n, bytes)
    /\ hist' = Disturbed
    /\ call' = AllDisturbed
    /\ UNCHANGED <<disk, fp, bd, qa>>

RemovePdf ==
    /\ hist.edits < MaxEdits
    /\ \E n \in PdfFilesOf(dir) : dir' = Without(dir, n)
    /\ hist' = Disturbed
    /\ call' = AllDisturbed
    /\ UNCHANGED <<disk, fp, bd, qa>>

ChangePdf ==
    /\ hist.edits < MaxEdits
    /\ \E n \in PdfFilesOf(dir) :
          \E bytes \in CorpusFiles \ {dir[n]} : dir' = With(dir, n, bytes)
    /\ hist' = Disturbed
    /\ call' = AllDisturbed
    /\ UNCHANGED <<disk, fp, bd, qa>>

\* an artifact of the cache root is deleted
DeleteArtifact ==
    /\ hist.edits < MaxEdits
    /\ \E a \in Artifacts :
          \/ a = "doc_vectorstore" /\ disk.doc_vectorstore # None
                /\ disk' = [disk EXCEPT !.doc_vectorstore = None]
          \/ a = "chunk_vectorstore" /\ disk.chunk_vectorstore # None
                /\ disk' = [disk EXCEPT !.chunk_vectorstore = None]
          \/ a = "documents_hash.txt" /\ disk.documents_hash # None
                /\ disk' = [disk EXCEPT !.documents_hash = None]
    /\ hist' = Disturbed
    /\ call' = AllDisturbed
    /\ UNCHANGED <<dir, fp, bd, qa>>

\* an index directory becomes unreadable for FAISS.load_local
CorruptIndex ==
    /\ hist.edits < MaxEdits
    /\ \/ /\ disk.doc_vectorstore # None /\ ~disk.doc_vectorstore.corrupt
          /\ disk' = [disk EXCEPT !.doc_vectorstore.corrupt = TRUE]
       \/ /\ disk.chunk_vectorstore # None /\ ~disk.chunk_vectorstore.corrupt
          /\ disk' = [disk EXCEPT !.chunk_vectorstore.corrupt = TRUE]
    /\ hist' = Disturbed
    /\ call' = AllDisturbed
    /\ UNCHANGED <<dir, fp, bd, qa>>

(***************************************************************************)
(* Specification of the cache                                              *)
(***************************************************************************)
InitialCorpora == {[n \in {"a.pdf"} |-> <<4, 3>>]}

Init ==
    /\ dir \in InitialCorpora
    /\ disk = EmptyDisk
    /\ call = [s \in Sessions |-> IdleFrame]
    /\ hist = NoHistory
    /\ fp = None
    /\ bd = None
    /\ qa = None

Next ==
    \/ \E s \in Sessions :
          \/ Call(s) \/ CallHashError(s) \/ CheckCache(s) \/ LoadDoc(s) \/ LoadChunk(s)
          \/ ListPdfs(s) \/ Build(s) \/ SaveDoc(s) \/ SaveChunk(s) \/ WriteHash(s)
          \/ Finish(s) \/ NewSession(s)
    \/ AddPdf \/ RemovePdf \/ ChangePdf \/ DeleteArtifact \/ CorruptIndex

Spec == Init /\ [][Next]_vars

(***************************************************************************)
(* Properties of the cache                                                 *)
(***************************************************************************)
RebuildPcs == {"list", "build", "save_doc", "save_chunk", "write_hash", "finish"}

RebuildResults == {"no_pdf", "build_error", "built"}

\* the call is on, or has returned from, the rebuild part (lines 999-1034)
OnRebuildPath(f) ==
    \/ f.pc \in RebuildPcs
    \/ f.pc = "returned" /\ f.result \in RebuildResults

\* C1: indexes loaded from disk are returned only when the call saw
\* documents_hash.txt and both index directories and read a stored
\* fingerprint equal to the one it computed; whenever the stored fingerprint
\* it saw differs from the computed one, the call neither loads nor returns
\* the persisted indexes and is on the rebuild path instead.
C1_LoadOnlyOnFingerprintMatch ==
    \A s \in DOMAIN call :
        LET f == call[s]
        IN  /\ (f.pc \in {"load_doc", "load_chunk"} \/ f.result = "loaded") =>
                  /\ f.seen # None
                  /\ f.seen.doc_vectorstore /\ f.seen.chunk_vectorstore
                  /\ f.seen.documents_hash # None
                  /\ f.saved_hash = f.seen.documents_hash
                  /\ f.saved_hash = f.current_hash
            /\ (f.seen # None /\ f.seen.documents_hash # f.current_hash) =>
                  /\ f.result # "loaded"
                  /\ OnRebuildPath(f)

\* a call has returned the indexes it loaded from the cache root
C1_Witness ==
    \E s \in DOMAIN call :
        /\ call[s].pc = "returned" /\ call[s].result = "loaded"
        /\ call[s].saved_hash = call[s].current_hash

\* C2: a call that starts after a call built and persisted both indexes,
\* with nothing written to the documents directory or the cache root in
\* between or during it, does not invoke the Index Builder and returns
\* indexes with the content the first call built.
C2_SecondCallLoads ==
    \A s \in DOMAIN call :
        LET f == call[s]
        IN  (f.pc = "returned" /\ f.in_succession) =>
                /\ ~f.invoked
                /\ f.result = "loaded"
                /\ f.ret.doc_vectorstore.entries = hist.persisted.doc_vectorstore.entries
                /\ f.ret.chunk_vectorstore.entries = hist.persisted.chunk_vectorstore.entries

\* the second call of such a pair has returned
C2_Witness ==
    \E s \in DOMAIN call :
        /\ call[s].pc = "returned" /\ call[s].in_succession
        /\ call[s].result = "loaded"
        /\ hist.persisted # None

\* the document yields at least one chunk for the chunk-level index
Usable(bytes) ==
    /\ ~ReaderRaises(bytes)
    /\ FullTextLen(extract_text_with_metadata(bytes, "")) >= MinDocChars
    /\ DocChunks(extract_text_with_metadata(bytes, "")) # <<>>

NoUsableText(d) == \A n \in PdfFilesOf(d) : ~Usable(d[n])

\* C3 (as claimed): a call made after a PDF was added to or removed from the
\* documents directory since the last persisted build invokes the Index
\* Builder and does not return the persisted indexes.  Stated for the calls
\* the claim is least demanding on: the directory still holds a document
\* with usable text, and no read, write or embedding request fails.
C3_RebuildAfterAddOrRemove ==
    \A s \in DOMAIN call :
        LET f == call[s]
        IN  (/\ f.pc = "returned" /\ ~f.fault
             /\ f.base_dir # None
             /\ PdfFilesOf(f.base_dir) # PdfFilesOf(f.start_dir)
             /\ ~NoUsableText(f.start_dir)) =>
                /\ f.result # "loaded"
                /\ f.invoked

\* the call saw a cache miss: an artifact absent, the stored fingerprint
\* different, or a load that raised
CacheMiss(f) ==
    /\ f.seen # None
    /\ \/ ~f.seen.doc_vectorstore
       \/ ~f.seen.chunk_vectorstore
       \/ f.seen.documents_hash = None
       \/ f.seen.documents_hash # f.current_hash
       \/ f.load_raised

\* C6 (as claimed): every cache miss ends with the Index Builder invoked and
\* the freshly built pair returned.  Stated for the calls in which no read,
\* write or embedding request fails.
C6_MissAlwaysRebuilds ==
    \A s \in DOMAIN call :
        LET f == call[s]
        IN  (f.pc = "returned" /\ CacheMiss(f) /\ ~f.fault) =>
                (f.invoked /\ f.result = "built")

\* C6 (amended): every cache miss leads to the rebuild path, never to a
\* stale load or a load error: the call returns "no PDF files" without
\* invoking the Index Builder when the directory lists no PDF; otherwise it
\* invokes the Index Builder and returns the freshly built pair exactly when
\* the build and the three writes went through, and the failure result
\* when the build or a write raised.
C6_MissTakesRebuildPath ==
    \A s \in DOMAIN call :
        LET f == call[s]
        IN  /\ (CacheMiss(f) /\ f.pc # "load_doc" /\ f.pc # "load_chunk") => OnRebuildPath(f)
            /\ (f.pc = "returned" /\ CacheMiss(f)) =>
                  /\ f.result \in RebuildResults
                  /\ (f.result = "no_pdf") <=> (f.total_files = 0)
                  /\ (f.total_files > 0) => f.invoked
                  /\ (f.result = "no_pdf") => (~f.invoked /\ f.ret = None)
                  /\ (f.result = "build_error") =>
                        /\ f.ret = None /\ Len(f.writes) < 3
                        /\ f.fault \/ NoUsableText(f.built_from)
                  /\ (f.result = "built") =>
                        /\ Len(f.writes) = 3
                        /\ f.ret = [doc_vectorstore |-> f.doc_vectorstore,
                                    chunk_vectorstore |-> f.chunk_vectorstore]
                        /\ f.ret.doc_vectorstore.from = f.built_from
                        /\ f.ret.chunk_vectorstore.from = f.built_from

\* a load raised on a cache whose fingerprint matched, and the call rebuilt
C6_Witness ==
    \E s \in DOMAIN call :
        /\ call[s].pc = "returned" /\ call[s].load_raised
        /\ call[s].result = "built"

\* C7: a call that returns a freshly built pair has saved the doc index,
\* then the chunk index, then written documents_hash.txt, in that order and
\* nothing else; what it saved is the pair it returns and what it wrote to
\* documents_hash.txt is the fingerprint it computed at its start; and if
\* nothing else touched the cache root during the call, the cache root
\* holds them.
C7_WriteThrough ==
    \A s \in DOMAIN call :
        LET f == call[s]
        IN  (f.pc = "returned" /\ f.result = "built") =>
                /\ Len(f.writes) = 3
                /\ f.writes[1] = Written("doc_vectorstore", f.ret.doc_vectorstore)
                /\ f.writes[2] = Written("chunk_vectorstore", f.ret.chunk_vectorstore)
                /\ f.writes[3] = Written("documents_hash.txt", f.current_hash)
                /\ f.undisturbed =>
                      /\ disk.doc_vectorstore = f.ret.doc_vectorstore
                      /\ disk.chunk_vectorstore = f.ret.chunk_vectorstore
                      /\ disk.documents_hash = f.current_hash

\* a call has returned a freshly built pair over a stale fingerprint file
C7_Witness ==
    \E s \in DOMAIN call :
        /\ call[s].pc = "returned" /\ call[s].result = "built"
        /\ call[s].undisturbed
        /\ call[s].saved_hash # None

\* C8 (as claimed): a call on a documents directory with no PDF, or only
\* PDFs without usable text, returns the failure result and persists
\* nothing.
C8_EmptyCorpusFails ==
    \A s \in DOMAIN call :
        LET f == call[s]
        IN  (/\ f.pc = "returned" /\ f.current_hash # None
             /\ NoUsableText(f.start_dir)
             /\ f.built_from \in {None, f.start_dir}) =>
                /\ f.ret = None
                /\ f.result \in {"no_pdf", "build_error"}
                /\ f.writes = <<>>

(***************************************************************************)
(* The fingerprint as a function: a directory is drawn, listed twice in    *)
(* orders the file system chooses, fingerprinted, and then edited once     *)
(***************************************************************************)
FpByte == {1, 2}

FpFiles == SeqsUpTo(FpByte, MaxFileLen)

\* directories of PDFs, with or without a file that is not a PDF
FpDirs ==
    UNION {[S -> FpFiles] : S \in SUBSET PdfNames}
      \cup UNION {{With(d, "n.txt", <<1>>) : d \in [S -> FpFiles]} : S \in SUBSET PdfNames}

Quiescent ==
    /\ dir = <<>>
    /\ disk = EmptyDisk
    /\ call = [s \in Sessions |-> IdleFrame]
    /\ hist = NoHistory

InitHash ==
    /\ Quiescent
    /\ bd = None
    /\ qa = None
    /\ \E d \in FpDirs :
          fp = [d |-> d, l1 |-> None, l2 |-> None, h1 |-> None, h2 |-> None,
                a1 |-> None, a2 |-> None, d0 |-> None, h0 |-> None, edit |-> "none"]

\* two runs of compute_documents_hash on the same directory
Fingerprint ==
    /\ fp.h1 = None
    /\ \E l1 \in ListDir(fp.d), l2 \in ListDir(fp.d) :
          fp' = [fp EXCEPT !.l1 = l1, !.l2 = l2,
                           !.h1 = compute_documents_hash(fp.d, l1),
                           !.h2 = compute_documents_hash(fp.d, l2),
                           !.a1 = compute_documents_hash_app(fp.d, l1),
                           !.a2 = compute_documents_hash_app(fp.d, l2)]
    /\ UNCHANGED <<dir, disk, call, hist, bd, qa>>

Edited(d, edit) ==
    [fp EXCEPT !.d = d, !.d0 = fp.d, !.h0 = fp.h1, !.edit = edit,
               !.l1 = None, !.l2 = None, !.h1 = None, !.h2 = None,
               !.a1 = None, !.a2 = None]

FpAdd ==
    /\ fp.h1 # None /\ fp.edit = "none"
    /\ \E n \in PdfNames \ DOMAIN fp.d, bytes \in FpFiles :
          fp' = Edited(With(fp.d, n, bytes), "add")
    /\ UNCHANGED <<dir, disk, call, hist, bd, qa>>

FpRemove ==
    /\ fp.h1 # None /\ fp.edit = "none"
    /\ \E n \in PdfFilesOf(fp.d) : fp' = Edited(Without(fp.d, n), "remove")
    /\ UNCHANGED <<dir, disk, call, hist, bd, qa>>

FpChange ==
    /\ fp.h1 # None /\ fp.edit = "none"
    /\ \E n \in PdfFilesOf(fp.d) :
          \E bytes \in FpFiles \ {fp.d[n]} : fp' = Edited(With(fp.d, n, bytes), "change")
    /\ UNCHANGED <<dir, disk, call, hist, bd, qa>>

NextHash == Fingerprint \/ FpAdd \/ FpRemove \/ FpChange

SpecHash == InitHash /\ [][NextHash]_vars

\* C4 (as claimed): after a document is added, removed or changed, the
\* fingerprint of the directory differs from the fingerprint before.
C4_FingerprintSensitive ==
    (fp # None /\ fp.edit # "none" /\ fp.h1 # None) => fp.h1 # fp.h0

\* C5: the fingerprint of a directory is the same for every order in which
\* the directory listing enumerates the files, in both applications.
C5_FingerprintOrderIndependent ==
    (fp # None /\ fp.h1 # None) => (fp.h1 = fp.h2 /\ fp.a1 = fp.a2)

\* two PDFs of different content were listed in opposite orders and fingerprinted
C5_Witness ==
    /\ fp # None /\ fp.h1 # None
    /\ PdfFilesOf(fp.d) = PdfNames
    /\ fp.d["a.pdf"] # fp.d["B.PDF"]
    /\ SelectSeq(fp.l1, IsPdf) # SelectSeq(fp.l2, IsPdf)

(***************************************************************************)
(* The Index Builder as a function: a directory is drawn and built once    *)
(***************************************************************************)
BuildFiles == SeqsUpTo(Byte, MaxFileLen)

\* directories of PDFs next to a file that is not a PDF
BuildDirs == UNION {{With(d, "n.txt", <<4, 3>>) : d \in [S -> BuildFiles]} : S \in SUBSET PdfNames}

InitBuild ==
    /\ Quiescent
    /\ fp = None
    /\ qa = None
    /\ \E d \in BuildDirs : bd = [d |-> d, embed_ok |-> FALSE, out |-> None]

BuildOnce ==
    /\ bd.out = None
    /\ \E listing \in ListDir(bd.d), llm \in [DOMAIN bd.d -> BOOLEAN], embed_ok \in BOOLEAN :
          bd' = [bd EXCEPT
                    !.embed_ok = embed_ok,
                    !.out = create_hierarchical_vectorstore_with_progress(
                                bd.d, listing, llm, embed_ok)]
    /\ UNCHANGED <<dir, disk, call, hist, fp, qa>>

NextBuild == BuildOnce

SpecBuild == InitBuild /\ [][NextBuild]_vars

\* the document gets a summary entry: it can be read and has enough text
Summarised(bytes) ==
    /\ ~ReaderRaises(bytes)
    /\ extract_text_with_metadata(bytes, "") # <<>>
    /\ FullTextLen(extract_text_with_metadata(bytes, "")) >= MinDocChars

FileNamesOf(entries) == {entries[i].metadata.filename : i \in 1..Len(entries)}

\* C9: when at least one document yields usable content and the embedding
\* service answers, the build succeeds whichever other documents fail to
\* extract: each failing document is reported and skipped, and the two
\* indexes hold exactly the summaries and the chunks of the documents that
\* did not fail.
C9_ExtractionFailureSkipped ==
    (/\ bd # None /\ bd.out # None /\ bd.embed_ok
     /\ \E n \in PdfFilesOf(bd.d) : Usable(bd.d[n])) =>
        /\ ~bd.out.raised
        /\ Range(bd.out.warnings) = {n \in PdfFilesOf(bd.d) : ReaderRaises(bd.d[n])}
        /\ Len(bd.out.warnings) = Cardinality(Range(bd.out.warnings))
        /\ FileNamesOf(bd.out.doc_vectorstore) = {n \in PdfFilesOf(bd.d) : Summarised(bd.d[n])}
        /\ Len(bd.out.doc_vectorstore) = Cardinality(FileNamesOf(bd.out.doc_vectorstore))
        /\ \A n \in PdfFilesOf(bd.d) :
              SelectSeq(bd.out.chunk_vectorstore, LAMBDA c : c.filename = n)
                 = IF ReaderRaises(bd.d[n]) THEN <<>>
                   ELSE DocChunks(extract_text_with_metadata(bd.d[n], n))
        /\ \A i \in 1..Len(bd.out.chunk_vectorstore) :
              bd.out.chunk_vectorstore[i].filename \in PdfFilesOf(bd.d)

\* a build succeeded although the extraction of one document raised
C9_Witness ==
    /\ bd # None /\ bd.out # None
    /\ ~bd.out.raised
    /\ bd.out.warnings # <<>>
    /\ bd.out.chunk_vectorstore # <<>>

(***************************************************************************)
(* The question handler of main() (lines 1778-1911) and its language-model *)
(* calls, for the session that owns the frame call[s]                      *)
(***************************************************************************)
Questions == {"q"}

(***************************************************************************)
(* Retrieval Composer: AdvancedRetriever and the chain built over it       *)
(***************************************************************************)
Min(a, b) == IF a < b THEN a ELSE b

\* the first k of a list
TopK(list, k) == SubSeq(list, 1, Min(k, Len(list)))

\* position of x in a list, 0 when it is not in it
RankIn(list, x) ==
    IF \E i \in 1..Len(list) : list[i] = x
    THEN CHOOSE i \in 1..Len(list) : list[i] = x
    ELSE 0

SimilarityK == 5
MmrK == 5
MmrFetchK == 15
SimilarityWeight == 6
MmrWeight == 4
RrfC == 60

\* weighted reciprocal rank of x as a fraction: each list that holds x adds
\* weight / (rank + 60)
RrfScore(x, similarity, mmr) ==
    LET rs == RankIn(similarity, x)
        rm == RankIn(mmr, x)
    IN  IF rs > 0 /\ rm > 0
        THEN [num |-> SimilarityWeight * (rm + RrfC) + MmrWeight * (rs + RrfC),
              den |-> (rs + RrfC) * (rm + RrfC)]
        ELSE IF rs > 0 THEN [num |-> SimilarityWeight, den |-> rs + RrfC]
        ELSE IF rm > 0 THEN [num |-> MmrWeight, den |-> rm + RrfC]
        ELSE [num |-> 0, den |-> 1]

Higher(a, b) == a.num * b.den > b.num * a.den

\* x put into a list ordered by falling score, behind its equals
RECURSIVE InsertByScore(_, _, _, _)
InsertByScore(x, list, similarity, mmr) ==
    IF list = <<>> THEN <<x>>
    ELSE IF Higher(RrfScore(x, similarity, mmr), RrfScore(Head(list), similarity, mmr))
    THEN <<x>> \o list
    ELSE <<Head(list)>> \o InsertByScore(x, Tail(list), similarity, mmr)

RECURSIVE FuseFrom(_, _, _, _)
FuseFrom(todo, fused, similarity, mmr) ==
    IF todo = <<>> THEN fused
    ELSE IF \E i \in 1..Len(fused) : fused[i] = Head(todo)
    THEN FuseFrom(Tail(todo), fused, similarity, mmr)
    ELSE FuseFrom(Tail(todo), InsertByScore(Head(todo), fused, similarity, mmr), similarity, mmr)

\* EnsembleRetriever over [similarity_retriever, mmr_retriever] with weights
\* [0.6, 0.4]: the passages of both lists, each once, by weighted reciprocal rank
EnsembleRetriever(similarity, mmr) == FuseFrom(similarity \o mmr, <<>>, similarity, mmr)

\* the orders in which the embedding of a query may rank the entries of an index
Rankings(store) == Perms(1..Len(store.entries))

\* create_ensemble_retriever (lines 907-926): the ensemble retriever reads the
\* chunk-level index only; the retriever over the doc-level index is built
\* and returned next to it
create_ensemble_retriever(doc_vectorstore, chunk_vectorstore) ==
    [ensemble_retriever |-> [similarity |-> chunk_vectorstore, mmr |-> chunk_vectorstore],
     doc_retriever |-> [vectorstore |-> doc_vectorstore, k |-> 10]]

\* create_compressed_retriever (lines 928-938): the compressor is put around
\* the base retriever unless building it raises
create_compressed_retriever(base_retriever, compressor_built) ==
    [base_retriever |-> base_retriever, base_compressor |-> compressor_built]

\* create_context_aware_conversation_chain (lines 1042-1044, 1102-1113): the
\* chain keeps the compressed retriever and a new, empty memory
create_context_aware_conversation_chain(doc_vectorstore, chunk_vectorstore, compressor_built) ==
    LET retrievers == create_ensemble_retriever(doc_vectorstore, chunk_vectorstore)
    IN  [retriever |-> create_compressed_retriever(retrievers.ensemble_retriever, compressor_built),
         memory |-> <<>>]

\* the fused candidates of a chain for a query whose embedding ranks the
\* chunks by ranking and whose diversity search orders them by mmr_order
FusedCandidates(chain, ranking, mmr_order) ==
    LET base == chain.retriever.base_retriever
        similarity == [i \in 1..Len(TopK(ranking, SimilarityK)) |-> base.similarity.entries[ranking[i]]]
        fetched == TopK(ranking, MmrFetchK)
        selected == TopK(SelectSeq(mmr_order, LAMBDA i : i \in Range(fetched)), MmrK)
        mmr == [i \in 1..Len(selected) |-> base.mmr.entries[selected[i]]]
    IN  EnsembleRetriever(similarity, mmr)

\* the candidates the compressor keeps: those it extracts a relevant span from
Compressed(fused, kept) == SelectSeq(fused, LAMBDA c : c \in kept)

\* what the guardrail model may answer, or "raise" when the call fails
GuardrailReplies == {"YES", " yes", "NO", "raise"}

\* .content.strip().upper() on the replies of the model
StripUpper(reply) == CASE reply = " yes" -> "YES" [] OTHER -> reply

\* a guardrail that rejects the question when its language-model call fails
is_tax_related_fail_closed(reply) ==
    IF reply = "raise" THEN FALSE ELSE StripUpper(reply) = "YES"

\* is_tax_related (lines 1376-1391): the bare except returns True
is_tax_related(reply) ==
    IF reply = "raise" THEN TRUE ELSE StripUpper(reply) = "YES"

\* what the chain may answer, or "raise" when retrieval or generation fails
ChainReplies == {"A", " ", "Information not available.", "raise"}

\* str.strip() on the answers of the model
Strip(answer) == CASE answer = " " -> "" [] OTHER -> answer

NotReady == "Knowledge base not ready"
Rejected == "Please ask tax, accounting, finance, or business compliance related questions"
NoAnswer == "No answer generated"
GenerationError == "Error generating response"
SaveError == "Error saving Q&A history"

KbOptions == {"Existing Knowledge Base", "Customized Knowledge Base"}

\* lines 1805-1815: under the existing knowledge base, a session that holds
\* both indexes and no chain gets a chain
CreateChainIfNone(q, compressor_built) ==
    IF /\ q.kb_selection = "Existing Knowledge Base"
       /\ q.doc_vectorstore # None /\ q.chunk_vectorstore # None
       /\ q.conversation_chain = None
    THEN [q EXCEPT !.conversation_chain =
             create_context_aware_conversation_chain(q.doc_vectorstore, q.chunk_vectorstore,
                                                     compressor_built)]
    ELSE q

\* lines 1778-1815: the session takes the indexes the call returned and
\* builds its conversation chain over them
KnowledgeBaseReady(s) ==
    /\ call[s].pc = "returned" /\ call[s].ret # None
    /\ qa.pc = "idle" /\ qa.doc_vectorstore = None
    /\ qa.kb_selection = "Existing Knowledge Base"
    /\ \E compressor_built \in BOOLEAN :
          qa' = CreateChainIfNone([qa EXCEPT
                                      !.doc_vectorstore = call[s].ret.doc_vectorstore,
                                      !.chunk_vectorstore = call[s].ret.chunk_vectorstore],
                                  compressor_built)
    /\ UNCHANGED <<dir, disk, call, hist, fp, bd>>

\* lines 1778-1781 on the next run of the script: the call returned no
\* indexes, so the session calls process_documents_with_caching again
Rerun(s) ==
    /\ call[s].pc = "returned" /\ call[s].ret = None
    /\ qa.pc = "idle"
    /\ qa.kb_selection = "Existing Knowledge Base"
    /\ call' = [call EXCEPT ![s] = IdleFrame]
    /\ UNCHANGED <<dir, disk, hist, fp, bd, qa>>

\* a user action starts a new run of the script: what the last question put
\* on the page is gone
Redrawn(q) == [q EXCEPT !.question = None, !.before = None, !.last = None]

\* lines 1704-1712: Save Profile drops the chain and reruns the script, which
\* builds a new chain (lines 1805-1815)
SaveProfile(s) ==
    /\ call[s].pc = "returned"
    /\ qa.pc = "idle"
    /\ \E saved \in BOOLEAN, compressor_built \in BOOLEAN :
          qa' = IF saved
                THEN CreateChainIfNone([Redrawn(qa) EXCEPT !.conversation_chain = None],
                                       compressor_built)
                ELSE Redrawn(qa)
    /\ UNCHANGED <<dir, disk, call, hist, fp, bd>>

\* lines 1755-1769: Process Document under the customized knowledge base
ProcessUpload(s) ==
    /\ call[s].pc = "returned"
    /\ qa.pc = "idle"
    /\ qa.kb_selection = "Customized Knowledge Base"
    /\ \E extracted \in BOOLEAN :
          qa' = IF extracted
                THEN [Redrawn(qa) EXCEPT !.custom_vectorstore = [entries |-> <<>>, source |-> "upload"],
                                         !.conversation_chain = None]
                ELSE [Redrawn(qa) EXCEPT !.custom_vectorstore = None]
    /\ UNCHANGED <<dir, disk, call, hist, fp, bd>>

\* lines 1746-1752: the other knowledge base is selected, and the script runs on
SwitchKb(s) ==
    /\ call[s].pc = "returned"
    /\ qa.pc = "idle"
    /\ \E kb \in KbOptions \ {qa.kb_selection}, compressor_built \in BOOLEAN :
          qa' = CreateChainIfNone([Redrawn(qa) EXCEPT !.kb_selection = kb], compressor_built)
    /\ UNCHANGED <<dir, disk, call, hist, fp, bd>>

Snapshot ==
    [chat_history |-> qa.chat_history,
     memory |-> qa.conversation_chain.memory,
     qa_history_file |-> qa.qa_history_file,
     disk |-> disk]

\* what is known of a question: how it ended, what was shown, the calls made
\* to a language model, what retrieval returned (until generation is over)
\* and what generation returned
Turn(outcome, shown) ==
    [outcome |-> outcome, shown |-> shown, llm_calls |-> <<>>, guardrail |-> "none",
     failed |-> "none", fused |-> None, context |-> None, alt |-> None, reply |-> "none"]

\* a session that takes a question while another one is in flight
AcceptingAlways(q) == TRUE

\* one run of the script handles one press of the button from line 1832 to
\* its end before the next run starts
Accepting(q) == q.pc = "idle"

\* lines 1832-1846: the button is pressed with a question
Ask(s) ==
    /\ call[s].pc = "returned"
    /\ Accepting(qa) /\ qa.asked < MaxQuestions
    /\ \E question \in Questions :
          qa' = IF qa.conversation_chain = None
                THEN [qa EXCEPT !.asked = @ + 1, !.question = question, !.before = None,
                                !.last = Turn("not_ready", <<NotReady>>)]
                ELSE [qa EXCEPT !.asked = @ + 1, !.question = question,
                                !.before = Snapshot,
                                !.last = Turn("running", <<>>),
                                !.pc = IF qa.kb_selection = "Existing Knowledge Base"
                                       THEN "validating" ELSE "retrieving"]
    /\ UNCHANGED <<dir, disk, call, hist, fp, bd>>

\* how the guardrail call ended
GuardrailCall(reply) == IF reply = "raise" THEN "raise" ELSE "replied"

\* lines 1844-1850: the guardrail classification
Validate(s) ==
    /\ qa.pc = "validating"
    /\ \E reply \in GuardrailReplies :
          qa' = IF is_tax_related(reply)
                THEN [qa EXCEPT !.pc = "retrieving",
                                !.last.llm_calls = Append(@, "guardrail"),
                                !.last.guardrail = GuardrailCall(reply)]
                ELSE [qa EXCEPT !.pc = "idle",
                                !.last.llm_calls = Append(@, "guardrail"),
                                !.last.guardrail = GuardrailCall(reply),
                                !.last.outcome = "rejected",
                                !.last.shown = Append(@, Rejected)]
    /\ UNCHANGED <<dir, disk, call, hist, fp, bd>>

\* the doc-level indexes a chain over the same chunk-level index could have
\* been built with instead
OtherDocIndexes(doc_vectorstore) ==
    {[doc_vectorstore EXCEPT !.entries = SelectSeq(@, LAMBDA e : e.metadata.filename \in S)] :
        S \in SUBSET PdfNames} \ {doc_vectorstore}

\* what the compressor does with the fused candidates: it raises, or keeps some
CompressorOutcomes(fused) ==
    {[raised |-> TRUE, kept |-> {}]} \cup {[raised |-> FALSE, kept |-> K] : K \in SUBSET Range(fused)}

\* line 1861, first part of conversation_chain.invoke: the retriever of the
\* chain fetches the passages for the question.  Next to it, the same query
\* is put to a chain built over another doc-level index.
Retrieve(s) ==
    /\ qa.pc = "retrieving"
    /\ LET chain == qa.conversation_chain
           chunk_vectorstore == chain.retriever.base_retriever.similarity
       IN  \E ranking \in Rankings(chunk_vectorstore), mmr_order \in Rankings(chunk_vectorstore),
              other \in OtherDocIndexes(qa.doc_vectorstore) :
              LET fused == FusedCandidates(chain, ranking, mmr_order)
                  alt == [doc_vectorstore |-> other,
                          fused |-> FusedCandidates(
                                        create_context_aware_conversation_chain(
                                            other, chunk_vectorstore,
                                            chain.retriever.base_compressor),
                                        ranking, mmr_order)]
                  fetched == [qa EXCEPT !.last.fused = fused, !.last.alt = alt]
              IN  IF ~chain.retriever.base_compressor
                  THEN qa' = [fetched EXCEPT !.pc = "generating", !.last.context = fused]
                  ELSE \E compressor \in CompressorOutcomes(fused) :
                          qa' = IF compressor.raised
                                THEN [fetched EXCEPT
                                         !.pc = "idle",
                                         !.last.llm_calls = Append(@, "compress"),
                                         !.last.failed = "compress",
                                         !.last.outcome = "error",
                                         !.last.shown = Append(@, GenerationError)]
                                ELSE [fetched EXCEPT
                                         !.pc = "generating",
                                         !.last.llm_calls = Append(@, "compress"),
                                         !.last.context = Compressed(fused, compressor.kept)]
    /\ UNCHANGED <<dir, disk, call, hist, fp, bd>>

\* the answer counts as no answer when it is empty
IsNoAnswerEmptyOnly(final_answer) == final_answer = ""

\* line 1870
IsNoAnswer(final_answer) == final_answer = "" \/ final_answer = "Information not available."

\* lines 1861-1911: the chain generates the answer and, when the call
\* returns, saves the turn to its memory; the handler shows the answer and
\* appends it to the Q&A log and to chat_history unless it counts as no answer
Generate(s) ==
    /\ qa.pc = "generating"
    /\ \E reply \in ChainReplies, csv_ok \in BOOLEAN :
          LET final_answer == Strip(reply)
              called == [qa EXCEPT !.pc = "idle", !.last.llm_calls = Append(@, "answer"),
                                   !.last.fused = None, !.last.context = None,
                                   !.last.alt = None]
              remembered == [called EXCEPT !.last.reply = reply,
                                           !.conversation_chain.memory =
                                               Append(@, <<qa.question, reply>>)]
          IN  qa' = IF reply = "raise"
                    THEN [called EXCEPT !.last.outcome = "error",
                                        !.last.failed = "answer",
                                        !.last.shown = Append(@, GenerationError)]
                    ELSE IF IsNoAnswer(final_answer)
                    THEN [remembered EXCEPT !.last.outcome = "no_answer",
                                            !.last.shown = Append(@, NoAnswer)]
                    ELSE [remembered EXCEPT
                             !.last.outcome = "answered",
                             !.last.shown = IF csv_ok THEN <<final_answer>>
                                            ELSE <<final_answer, SaveError>>,
                             !.qa_history_file =
                                 IF csv_ok THEN Append(@, <<qa.question, final_answer>>) ELSE @,
                             !.chat_history = Append(@, <<qa.question, final_answer>>)]
    /\ UNCHANGED <<dir, disk, call, hist, fp, bd>>

\* corpora of the sessions that ask questions
LlmCorpora == {[n \in {"a.pdf"} |-> <<4, 3, 4>>]}

InitLLM ==
    /\ dir \in LlmCorpora
    /\ disk = EmptyDisk
    /\ call = [s \in Sessions |-> IdleFrame]
    /\ hist = NoHistory
    /\ fp = None
    /\ bd = None
    /\ qa = FreshSession

NextLLM ==
    \E s \in Sessions :
        \/ Call(s) \/ CallHashError(s) \/ CheckCache(s) \/ LoadDoc(s) \/ LoadChunk(s)
        \/ ListPdfs(s) \/ Build(s) \/ SaveDoc(s) \/ SaveChunk(s) \/ WriteHash(s)
        \/ Finish(s) \/ NewSession(s) \/ Rerun(s)
        \/ KnowledgeBaseReady(s) \/ SaveProfile(s) \/ ProcessUpload(s) \/ SwitchKb(s)
        \/ Ask(s) \/ Validate(s) \/ Retrieve(s) \/ Generate(s)

SpecLLM == InitLLM /\ [][NextLLM]_vars

NoRepeat(q) == Len(q) = Cardinality(Range(q))

\* the state the question started from is the state now
StateAsBefore ==
    /\ qa.chat_history = qa.before.chat_history
    /\ qa.conversation_chain.memory = qa.before.memory
    /\ qa.qa_history_file = qa.before.qa_history_file
    /\ disk = qa.before.disk

\* the summary of document n in a doc-level index
SummaryKinds(store, n) ==
    {store.entries[i].text.kind :
        i \in {j \in 1..Len(store.entries) : store.entries[j].metadata.filename = n}}

C12_CompressionFallback ==
    (qa # None /\ qa.last # None /\ qa.last.failed = "compress") =>
        /\ qa.last.outcome # "error"
        /\ GenerationError \notin Range(qa.last.shown)
        /\ qa.last.context = qa.last.fused

\* the memory that feeds generation: that of the chain, none without a chain
Memory(q) == IF q.conversation_chain = None THEN <<>> ELSE q.conversation_chain.memory

\* C13 (as claimed): within a session, a step leaves the conversation memory
\* as it is or appends one turn to it when the chain has returned an answer.
C13_MemoryOnlyAppended ==
    [][(qa # None /\ ~(\E s \in DOMAIN call : call[s].pc = "returned" /\ call'[s].pc = "idle")) =>
          \/ Memory(qa') = Memory(qa)
          \/ /\ Len(Memory(qa')) = Len(Memory(qa)) + 1
             /\ SubSeq(Memory(qa'), 1, Len(Memory(qa))) = Memory(qa)
             /\ qa'.last.outcome \in {"answered", "no_answer"}]_vars

\* C14 (as claimed): a question that ends with an answer appends one turn to
\* chat_history and one record to the Q&A log, and a question that ends in
\* rejection, fallback or error appends to neither.
C14_HistoryAndLogGrowTogether ==
    (qa # None /\ qa.last # None /\ qa.before # None /\ qa.pc = "idle") =>
        /\ qa.last.outcome = "answered" =>
              /\ qa.chat_history =
                    Append(qa.before.chat_history, <<qa.question, Strip(qa.last.reply)>>)
              /\ qa.qa_history_file =
                    Append(qa.before.qa_history_file, <<qa.question, Strip(qa.last.reply)>>)
        /\ qa.last.outcome \in {"rejected", "no_answer", "error"} =>
              /\ qa.chat_history = qa.before.chat_history
              /\ qa.qa_history_file = qa.before.qa_history_file

\* C15: when the answer of the chain is empty after trimming or is the
\* placeholder, the user is shown the fixed message and nothing else, and
\* the answer goes neither to chat_history nor to the Q&A log.
C15_FallbackMessage ==
    (/\ qa # None /\ qa.last # None
     /\ Strip(qa.last.reply) \in {"", "Information not available."}) =>
        /\ qa.last.outcome = "no_answer"
        /\ qa.last.shown = <<NoAnswer>>
        /\ qa.last.reply \notin Range(qa.last.shown)
        /\ Strip(qa.last.reply) \notin Range(qa.last.shown)
        /\ qa.chat_history = qa.before.chat_history
        /\ qa.qa_history_file = qa.before.qa_history_file

\* the chain answered with the placeholder
C15_Witness ==
    /\ qa # None /\ qa.last # None
    /\ qa.last.reply = "Information not available."
    /\ qa.last.shown = <<NoAnswer>>

\* the steps of a question from phase to phase: Idle is pc = "idle" before
\* the question, Done is pc = "idle" after it
PhaseSteps ==
    {<<"idle", "validating">>, <<"idle", "retrieving">>, <<"validating", "retrieving">>,
     <<"retrieving", "generating">>, <<"generating", "idle">>,
     <<"validating", "idle">>, <<"retrieving", "idle">>}

C20_DocIndexNarrowsRetrieval ==
    (/\ qa # None /\ qa.last # None /\ qa.last.alt # None
     /\ \E i \in 1..Len(qa.last.fused) :
           qa.last.fused[i].filename \notin FileNamesOf(qa.last.alt.doc_vectorstore.entries)) =>
        qa.last.alt.fused # qa.last.fused

(***************************************************************************)
(* The Chunker as a function: a page is drawn and chunked once             *)
(***************************************************************************)
MaxParas == 2        \* most paragraphs on a page in the chunking experiments

ParaLens == {30, 60, 280, 499, 500, 580, 1150, 1999, 2000}

\* the pages: one to MaxParas paragraphs
ChunkTexts == SeqsUpTo(ParaLens, MaxParas) \ {<<>>}

InitChunk ==
    /\ Quiescent
    /\ fp = None
    /\ qa = None
    /\ \E paras \in ChunkTexts :
          bd = [page_data |-> [text |-> TextLen(paras), paras |-> paras, page |-> 1,
                               filename |-> "a.pdf"],
                out |-> None]

\* lines 832-841 for one page: the policy, the chunks of smart_chunking, and
\* the chunks that go into the index
ChunkOnce ==
    /\ bd.out = None
    /\ bd' = [bd EXCEPT !.out = [policy |-> ChunkPolicy(bd.page_data.text),
                                 chunks |-> smart_chunking(bd.page_data),
                                 indexed |-> PageChunks(bd.page_data)]]
    /\ UNCHANGED <<dir, disk, call, hist, fp, qa>>

NextChunk == ChunkOnce

SpecChunk == InitChunk /\ [][NextChunk]_vars

\* the characters of the paragraphs of a text, as spans from .. to - 1
ParaSpans(paras) ==
    LET pieces == Pieces(paras, 0, 0)
    IN  {[from |-> pieces[i].start + pieces[i].lead, to |-> pieces[i].start + pieces[i].len] :
            i \in 1..Len(pieces)}

InChunk(pos, chunk_docs) ==
    \E i \in 1..Len(chunk_docs) :
        /\ chunk_docs[i].text.start <= pos
        /\ pos < chunk_docs[i].text.start + chunk_docs[i].text.size

\* every character of every paragraph lies in a chunk: in a span it is
\* enough to look at its first character and at the characters that follow
\* the end of a chunk
Covers(paras, chunk_docs) ==
    \A span \in ParaSpans(paras) :
        \A pos \in {span.from} \cup {chunk_docs[i].text.start + chunk_docs[i].text.size :
                                        i \in 1..Len(chunk_docs)} :
            (span.from <= pos /\ pos < span.to) => InChunk(pos, chunk_docs)

\* C17 (as claimed): the chunks of a chunked page that are in the chunk-level
\* index cover the text of the page.
C17_IndexedChunksCoverPage ==
    (bd # None /\ bd.out # None /\ bd.page_data.text >= MinPageChars) =>
        Covers(bd.page_data.paras, bd.out.indexed)

\* C17 (amended): the chunks smart_chunking derives from a chunked page cover
\* the text of the page; the index holds, in the same order, those of them
\* longer than 50 characters, so the text missing from the index is the
\* text of the chunks of 50 characters or fewer.
C17_DerivedChunksCoverPage ==
    (bd # None /\ bd.out # None /\ bd.page_data.text >= MinPageChars) =>
        /\ Covers(bd.page_data.paras, bd.out.chunks)
        /\ bd.out.indexed = SelectSeq(bd.out.chunks, LAMBDA c : c.chunk_size > 50)
        /\ \A i \in 1..Len(bd.out.chunks) :
              bd.out.chunks[i].chunk_size > 50 => InChunk(bd.out.chunks[i].text.start, bd.out.indexed)

\* a page was chunked of which a part is in a chunk too short for the index
C17_Witness ==
    /\ bd # None /\ bd.out # None /\ bd.page_data.text >= MinPageChars
    /\ bd.out.indexed # <<>>
    /\ ~Covers(bd.page_data.paras, bd.out.indexed)

\* C18: every chunk of a page that goes into the chunk-level index has at
\* least 50 characters.
C18_NoChunkBelowFloor ==
    (bd # None /\ bd.out # None) =>
        \A i \in 1..Len(bd.out.indexed) :
            /\ bd.out.indexed[i].chunk_size >= 50
            /\ bd.out.indexed[i].text.size = bd.out.indexed[i].chunk_size

\* a page was chunked into a chunk below the floor and a chunk above it
C18_Witness ==
    /\ bd # None /\ bd.out # None
    /\ \E i \in 1..Len(bd.out.chunks) : bd.out.chunks[i].chunk_size < 50
    /\ Len(bd.out.indexed) = Len(bd.out.chunks) - 1

\* C19: a text of up to 499 characters is chunked with size 300 and overlap
\* 50, a text of 500 to 1999 characters with 600 and 100, a text of 2000
\* characters or more with 1200 and 200; no chunk is longer than the size.
C19_AdaptiveSizing ==
    (bd # None /\ bd.out # None) =>
        /\ bd.page_data.text <= 499 =>
              bd.out.policy = [chunk_size |-> 300, chunk_overlap |-> 50]
        /\ (500 <= bd.page_data.text /\ bd.page_data.text <= 1999) =>
              bd.out.policy = [chunk_size |-> 600, chunk_overlap |-> 100]
        /\ bd.page_data.text >= 2000 =>
              bd.out.policy = [chunk_size |-> 1200, chunk_overlap |-> 200]
        /\ \A i \in 1..Len(bd.out.chunks) :
              bd.out.chunks[i].chunk_size <= bd.out.policy.chunk_size

\* a text of exactly 500 characters was chunked into one chunk
C19_Witness ==
    /\ bd # None /\ bd.out # None
    /\ bd.page_data.text = 500
    /\ Len(bd.out.chunks) = 1

(***************************************************************************)
(* Two sessions of the application on one documents directory and one      *)
(* cache root: every session runs main() in a thread of its own, and the   *)
(* calls of process_documents_with_caching interleave at their reads and   *)
(* writes                                                                  *)
(***************************************************************************)
RaceSessions == {"s1", "s2"}

InitRace ==
    /\ dir \in InitialCorpora
    /\ disk = EmptyDisk
    /\ call = [s \in RaceSessions |-> IdleFrame]
    /\ hist = NoHistory
    /\ fp = None
    /\ bd = None
    /\ qa = None

NextRace ==
    \E s \in RaceSessions :
        \/ Call(s) \/ CallHashError(s) \/ CheckCache(s) \/ LoadDoc(s) \/ LoadChunk(s)
        \/ ListPdfs(s) \/ Build(s) \/ SaveDoc(s) \/ SaveChunk(s) \/ WriteHash(s)
        \/ Finish(s) \/ NewSession(s)

SpecRace == InitRace /\ [][NextRace]_vars

\* the call has invoked the Index Builder and has not yet written the
\* fingerprint (lines 1013-1021)
InBuildAndPersist(f) == f.invoked /\ f.pc \in {"save_doc", "save_chunk", "write_hash"}

\* C11 (as claimed): two sessions are never both inside the build-and-persist
\* section for the same fingerprint.
C11_SingleFlight ==
    \A s \in DOMAIN call, t \in DOMAIN call :
        (s # t /\ InBuildAndPersist(call[s]) /\ InBuildAndPersist(call[t])) =>
            call[s].current_hash # call[t].current_hash


(***************************************************************************)
(* Batched insertion as a function: the two parallel lists are drawn and   *)
(* the chunk-level index is created once                                   *)
(***************************************************************************)
MaxBatches == 4      \* the longest list of chunks holds MaxBatches batches and one chunk

\* FAISS.from_texts: text i is stored with metadata i
from_texts(texts, metadatas) ==
    [i \in 1..Len(texts) |-> [text |-> texts[i], metadata |-> metadatas[i]]]

\* a merge that keeps only the batch merged last
merge_from_replacing(store, other) == other

\* FAISS.merge_from: the entries of the other index are added after those of
\* this one
merge_from(store, other) == store \o other

\* list[batch_idx:batch_idx + batch_size]
Slice(list, batch_idx, batch_size) ==
    SubSeq(list, batch_idx + 1, Min(batch_idx + batch_size, Len(list)))

\* the loop of lines 866-884 from batch_idx on; calls are the sizes of the
\* FAISS.from_texts calls made
RECURSIVE InsertBatches(_, _, _, _, _)
InsertBatches(all_chunks, all_chunk_metadata, batch_idx, chunk_vectorstore, calls) ==
    IF batch_idx >= Len(all_chunks) THEN [entries |-> chunk_vectorstore, calls |-> calls]
    ELSE LET batch_chunks == Slice(all_chunks, batch_idx, BatchSize)
             batch_metadata == Slice(all_chunk_metadata, batch_idx, BatchSize)
             batch_vectorstore == from_texts(batch_chunks, batch_metadata)
         IN  InsertBatches(all_chunks, all_chunk_metadata, batch_idx + BatchSize,
                           IF chunk_vectorstore = None THEN batch_vectorstore
                           ELSE merge_from(chunk_vectorstore, batch_vectorstore),
                           Append(calls, Len(batch_chunks)))

\* lines 862-891: the chunk-level index of the two lists
create_chunk_vectorstore(all_chunks, all_chunk_metadata) ==
    IF Len(all_chunks) > BatchThreshold
    THEN InsertBatches(all_chunks, all_chunk_metadata, 0, None, <<>>)
    ELSE [entries |-> from_texts(all_chunks, all_chunk_metadata),
          calls |-> <<Len(all_chunks)>>]

\* the lengths of the lists: around the threshold and around the batch ends
BatchLens ==
    {n \in {1, 2, BatchSize, BatchSize + 1, BatchThreshold - 1, BatchThreshold}
           \cup UNION {{k * BatchSize - 1, k * BatchSize, k * BatchSize + 1} : k \in 2..MaxBatches} :
        n <= MaxBatches * BatchSize + 1}

\* how often a text recurs in the list: every chunk the same text, ..., all
\* texts different
TextPeriods == {1, 2, 3, 7, 499, 500, 501, 5000}

\* lines 838-841 append to both lists together, so the lists are equally
\* long; the metadata of chunk i names its page and its place on the page
InitBatch ==
    /\ Quiescent
    /\ fp = None
    /\ qa = None
    /\ \E n \in BatchLens, period \in TextPeriods :
          bd = [all_chunks |-> [i \in 1..n |-> i % period],
                all_chunk_metadata |-> [i \in 1..n |-> [filename |-> "a.pdf",
                                                       page |-> 1 + (i \div 3),
                                                       chunk_id |-> i % 3]],
                out |-> None]

InsertOnce ==
    /\ bd.out = None
    /\ bd' = [bd EXCEPT !.out = create_chunk_vectorstore(bd.all_chunks, bd.all_chunk_metadata)]
    /\ UNCHANGED <<dir, disk, call, hist, fp, qa>>

NextBatch == InsertOnce

SpecBatch == InitBatch /\ [][NextBatch]_vars

\* the sizes of the batches of a list of n chunks
RECURSIVE BatchSizes(_)
BatchSizes(n) ==
    IF n <= BatchSize THEN <<n>> ELSE <<BatchSize>> \o BatchSizes(n - BatchSize)

\* C21: the chunk-level index of a list of more than 1000 chunks, built from
\* batches of 500 merged in order, holds the very entries one insertion of
\* the whole list would hold (the same (text, metadata) pairs, each as often
\* as it is in the list, here even in the same order); a list of 1000 chunks
\* or fewer is inserted in one call
C21_BatchedEqualsSingle ==
    bd.out # None =>
        /\ bd.out.entries = from_texts(bd.all_chunks, bd.all_chunk_metadata)
        /\ Len(bd.all_chunks) > BatchThreshold => bd.out.calls = BatchSizes(Len(bd.all_chunks))
        /\ Len(bd.all_chunks) <= BatchThreshold => bd.out.calls = <<Len(bd.all_chunks)>>

\* a list of more than two batches whose last batch is partial and in which
\* texts recur has been inserted in batches
C21_Witness ==
    /\ bd.out # None
    /\ Len(bd.all_chunks) = 3 * BatchSize + 1
    /\ Len(bd.out.calls) = 4
    /\ \E i, j \in {1, BatchSize + 1} : i # j /\ bd.all_chunks[i] = bd.all_chunks[j]


(***************************************************************************)
(* Text extraction as a function: the pages of one document are drawn and  *)
(* extracted once on the corpus path and once on the upload path           *)
(***************************************************************************)
MaxPages == 3        \* most pages of a document in the extraction experiments

\* what page.extract_text() can return: nothing, white space only, or text;
\* len is len(text) and strip is len(text.strip())
PageTexts == {[len |-> 0, strip |-> 0], [len |-> 2, strip |-> 0],
              [len |-> 120, strip |-> 118], [len |-> 600, strip |-> 600]}

\* pdf_reader.pages of the drawn documents; at is the place of the page in
\* the document, kept to tell the texts of equal pages apart
SourcePages ==
    {[i \in 1..Len(kinds) |-> [len |-> kinds[i].len, strip |-> kinds[i].strip, at |-> i]] :
        kinds \in SeqsUpTo(PageTexts, MaxPages)}

\* the loop of extract_text_with_metadata (lines 720-732) from page_num on
RECURSIVE PagesDataFrom(_, _, _)
PagesDataFrom(pages, page_num, filename) ==
    IF page_num >= Len(pages) THEN <<>>
    ELSE LET text == pages[page_num + 1]
             rest == PagesDataFrom(pages, page_num + 1, filename)
         IN  IF text.strip > 0
             THEN <<[text |-> text, page |-> page_num + 1, filename |-> filename]>> \o rest
             ELSE rest

\* the comprehension of line 1136: the pages whose text is not the empty string
extract_text_from_pdf(pages) == SelectSeq(pages, LAMBDA text : text.len > 0)

\* chunk_text of a page of one line: CharacterTextSplitter returns the
\* stripped line, and nothing when that is empty
chunk_text(page_text) == IF page_text.strip > 0 THEN <<page_text>> ELSE <<>>

\* the loop of process_uploaded_pdf (lines 1152-1156) from page_number on:
\* docs and metadatas as one list of pairs
RECURSIVE UploadedFrom(_, _, _)
UploadedFrom(pages_text, page_number, name) ==
    IF page_number >= Len(pages_text) THEN <<>>
    ELSE LET chunks == chunk_text(pages_text[page_number + 1])
         IN  [i \in 1..Len(chunks) |->
                  [text |-> chunks[i], source |-> name, page |-> page_number + 1]]
             \o UploadedFrom(pages_text, page_number + 1, name)

\* docs and metadatas of process_uploaded_pdf
process_uploaded_pdf(pages, name) == UploadedFrom(extract_text_from_pdf(pages), 0, name)

InitExtract ==
    /\ Quiescent
    /\ fp = None
    /\ qa = None
    /\ \E pages \in SourcePages : bd = [pages |-> pages, out |-> None]

ExtractOnce ==
    /\ bd.out = None
    /\ bd' = [bd EXCEPT !.out = [pages_data |-> PagesDataFrom(bd.pages, 0, "a.pdf"),
                                 uploaded |-> process_uploaded_pdf(bd.pages, "a.pdf")]]
    /\ UNCHANGED <<dir, disk, call, hist, fp, qa>>

NextExtract == ExtractOnce

SpecExtract == InitExtract /\ [][NextExtract]_vars

\* the places of the pages that have extractable text
TextPlaces(pages) == {i \in 1..Len(pages) : pages[i].strip > 0}

\* every emitted text carries the place of its page, and the emitted texts
\* are those of the pages with extractable text
NumberedBySource(pages, emitted) ==
    /\ \A i \in 1..Len(emitted) : emitted[i].page = emitted[i].text.at
    /\ {emitted[i].text.at : i \in 1..Len(emitted)} = TextPlaces(pages)

\* C22: on the corpus path and on the upload path every emitted text carries
\* the 1-based place of its page in the source document, and the pages
\* without extractable text are dropped, for every pattern of empty and
\* non-empty pages
C22_PageNumbersAreSourcePositions ==
    bd.out # None =>
        /\ NumberedBySource(bd.pages, bd.out.pages_data)
        /\ NumberedBySource(bd.pages, bd.out.uploaded)



(***************************************************************************)
(* Properties of the persisted cache                                       *)
(***************************************************************************)
\* no call of process_documents_with_caching is under way
NoCallRunning == \A s \in DOMAIN call : call[s].pc \in {"idle", "returned"}

\* the index was built from a document set whose fingerprint is hash
BuiltFromFingerprint(store, hash) ==
    \A listing \in ListDir(store.from) : compute_documents_hash(store.from, listing) = hash

\* C25: between the calls, whatever calls, corpus edits between them and
\* failed rebuilds came before, when documents_hash.txt holds a fingerprint
\* and both index directories exist, both persisted indexes were built from
\* a document set with that fingerprint
C25_PersistedCacheConsistent ==
    (/\ NoCallRunning
     /\ ~hist.raced
     /\ disk.documents_hash # None
     /\ disk.doc_vectorstore # None
     /\ disk.chunk_vectorstore # None) =>
        /\ BuiltFromFingerprint(disk.doc_vectorstore, disk.documents_hash)
        /\ BuiltFromFingerprint(disk.chunk_vectorstore, disk.documents_hash)

\* C26: the fingerprint a rebuild writes to documents_hash.txt is the
\* fingerprint of the document set the indexes it saved were built from,
\* also when the documents directory was modified while the rebuild ran
C26_PersistedFingerprintOfBuiltSet ==
    \A s \in DOMAIN call :
        \A i, j \in 1..Len(call[s].writes) :
            (/\ call[s].writes[i].artifact = "documents_hash.txt"
             /\ call[s].writes[j].artifact \in {"doc_vectorstore", "chunk_vectorstore"}) =>
                BuiltFromFingerprint(call[s].writes[j].value, call[s].writes[i].value)


(***************************************************************************)
(* Properties of the knowledge-base selection                              *)
(***************************************************************************)
\* the vector index of the knowledge base selected in the session: the
\* chunk-level index of the corpus, or the index of the processed upload
SelectedIndex(q) ==
    IF q.kb_selection = "Existing Knowledge Base" THEN q.chunk_vectorstore
    ELSE q.custom_vectorstore

\* the vector index the retriever of the chain searches
ChainIndex(chain) == chain.retriever.base_retriever.similarity

\* C24: whatever knowledge bases were selected and uploads processed before,
\* a question that is answered is answered by a chain built over the vector
\* index of the knowledge base selected at that time
C24_AnsweredFromSelectedKb ==
    (qa.last # None /\ qa.last.outcome = "answered") =>
        ChainIndex(qa.conversation_chain) = SelectedIndex(qa)


(***************************************************************************)
(* Properties of the two indexes of one build                              *)
(***************************************************************************)
\* the documents that have chunks in a chunk-level index
ChunkFileNamesOf(chunks) == {chunks[i].filename : i \in 1..Len(chunks)}

\* C28: after a successful build, for every corpus and every pattern of
\* per-document extraction failures, the documents with a summary entry in
\* the document-level index are the documents with a chunk in the
\* chunk-level index
C28_IndexesCoverSameDocuments ==
    (bd.out # None /\ ~bd.out.raised) =>
        FileNamesOf(bd.out.doc_vectorstore) = ChunkFileNamesOf(bd.out.chunk_vectorstore)


(***************************************************************************)
(* Timing of the question handler: timing_analysis.py and its use in       *)
(* main().  The dictionaries are objects on a heap; QUERY_TIMING of        *)
(* timing_analysis and the name QUERY_TIMING imported into the             *)
(* application each refer to one of them.                                  *)
(***************************************************************************)
TimedSteps == {"1. Question Validation", "2. Build User Context", "3. RAG Chain Invoke",
               "4. Extract Answer", "6. Display Answer", "7. Save to History"}

\* the server process has imported timing_analysis (lines 20-21 of it): one
\* empty dictionary, which the application's name refers to as well
FreshProcess ==
    [pc |-> "idle", heap |-> <<{}>>, QUERY_TIMING |-> 1, imported_QUERY_TIMING |-> 1,
     kb_selection |-> "Existing Knowledge Base", response |-> "none",
     outcome |-> "none", table |-> "none", asked |-> 0]

\* reset_timing (timing_analysis.py lines 24-28): the global is bound to a
\* new, empty dictionary
reset_timing(q) ==
    [q EXCEPT !.heap = Append(@, {}), !.QUERY_TIMING = Len(q.heap) + 1]

\* the finally clause of time_step (timing_analysis.py lines 45-53): the
\* step is entered into the dictionary the global refers to
time_step(q, step_name) == [q EXCEPT !.heap[q.QUERY_TIMING] = @ \cup {step_name}]

\* display_timing_table (timing_analysis.py lines 61-62 and on): nothing is
\* shown for an empty dictionary
display_timing_table(q) ==
    [q EXCEPT !.table = IF q.heap[q.QUERY_TIMING] = {} THEN "nothing" ELSE "shown"]

\* lines 1874-1875 and 1910-1911: the table is displayed if the dictionary
\* under the imported name is not empty
DisplayIfTimed(q) ==
    IF q.heap[q.imported_QUERY_TIMING] # {} THEN display_timing_table(q)
    ELSE [q EXCEPT !.table = "not_called"]

\* lines 1906-1911: the except branch of the handler
OnHandlerError(q) == DisplayIfTimed([q EXCEPT !.pc = "idle", !.outcome = "error"])

\* a user action starts a run of the script: line 31 binds the name
\* QUERY_TIMING to the dictionary the global of timing_analysis refers to now,
\* and the radio (lines 1746-1752) gives the selected knowledge base
RunScript ==
    /\ qa.pc = "idle"
    /\ \E kb \in KbOptions :
          qa' = [qa EXCEPT !.pc = "running", !.imported_QUERY_TIMING = qa.QUERY_TIMING,
                           !.kb_selection = kb, !.response = "none",
                           !.outcome = "none", !.table = "none"]
    /\ UNCHANGED <<dir, disk, call, hist, fp, bd>>

\* the run ends without the button having been pressed (line 1832)
RunEnds ==
    /\ qa.pc = "running"
    /\ qa' = [qa EXCEPT !.pc = "idle"]
    /\ UNCHANGED <<dir, disk, call, hist, fp, bd>>

\* lines 1832-1843: the button was pressed with a question and the chain is
\* there
AskTimed ==
    /\ qa.pc = "running" /\ qa.asked < MaxQuestions
    /\ qa' = [reset_timing(qa) EXCEPT
                 !.asked = @ + 1,
                 !.pc = IF qa.kb_selection = "Existing Knowledge Base"
                        THEN "validating" ELSE "context"]
    /\ UNCHANGED <<dir, disk, call, hist, fp, bd>>

\* lines 1844-1850
ValidateTimed ==
    /\ qa.pc = "validating"
    /\ \E reply \in GuardrailReplies :
          LET timed == time_step(qa, "1. Question Validation")
          IN  qa' = IF is_tax_related(reply) THEN [timed EXCEPT !.pc = "context"]
                    ELSE [timed EXCEPT !.pc = "idle", !.outcome = "rejected"]
    /\ UNCHANGED <<dir, disk, call, hist, fp, bd>>

\* lines 1854-1857
BuildContextTimed ==
    /\ qa.pc = "context"
    /\ \E raised \in BOOLEAN :
          LET timed == time_step(qa, "2. Build User Context")
          IN  qa' = IF raised THEN OnHandlerError(timed) ELSE [timed EXCEPT !.pc = "invoke"]
    /\ UNCHANGED <<dir, disk, call, hist, fp, bd>>

\* lines 1859-1861
InvokeTimed ==
    /\ qa.pc = "invoke"
    /\ \E reply \in ChainReplies :
          LET timed == time_step(qa, "3. RAG Chain Invoke")
          IN  qa' = IF reply = "raise" THEN OnHandlerError(timed)
                    ELSE [timed EXCEPT !.pc = "extract", !.response = reply]
    /\ UNCHANGED <<dir, disk, call, hist, fp, bd>>

\* lines 1863-1875
ExtractTimed ==
    /\ qa.pc = "extract"
    /\ LET timed == time_step(qa, "4. Extract Answer")
           final_answer == Strip(qa.response)
       IN  qa' = IF IsNoAnswer(final_answer)
                 THEN DisplayIfTimed([timed EXCEPT !.pc = "idle", !.outcome = "no_answer"])
                 ELSE [timed EXCEPT !.pc = "display"]
    /\ UNCHANGED <<dir, disk, call, hist, fp, bd>>

\* lines 1877-1904
DisplayTimed ==
    /\ qa.pc = "display"
    /\ qa' = display_timing_table(
                 [time_step(time_step(qa, "6. Display Answer"), "7. Save to History")
                     EXCEPT !.pc = "idle", !.outcome = "answered"])
    /\ UNCHANGED <<dir, disk, call, hist, fp, bd>>

InitTiming ==
    /\ Quiescent
    /\ fp = None
    /\ bd = None
    /\ qa = FreshProcess

NextTiming ==
    \/ RunScript \/ RunEnds \/ AskTimed \/ ValidateTimed \/ BuildContextTimed
    \/ InvokeTimed \/ ExtractTimed \/ DisplayTimed

SpecTiming == InitTiming /\ [][NextTiming]_vars

\* C29: when a query has ended with no answer found, or with an error, and
\* at least one timed step was recorded since reset_timing, the handler has
\* displayed the timing table
C29_TimingShownOnFailure ==
    (/\ qa.outcome \in {"no_answer", "error"}
     /\ qa.heap[qa.QUERY_TIMING] # {}) =>
        qa.table = "shown"


(***************************************************************************)
(* Certificate Manager (tab 3 of main): upload, Extract Data and Save to   *)
(* Database.  Every press of a button is one run of the script, which      *)
(* starts with session_defaults.                                           *)
(***************************************************************************)
MaxSaves == 2        \* rows written to the certificate table in one behaviour

CertFiles == {"cert1.pdf", "cert2.pdf"}

\* st.session_state before the first run of the script, with the certificate
\* table and what the last press of a button put on the page; the key
\* extracted_cert_data is "absent", holds None ("None"), or holds the data
\* extracted from the named file
FreshCertSession ==
    [extracted_cert_data |-> "absent", openai_api_key |-> FALSE, cert_file |-> "none",
     certificates_data |-> <<>>, clicked |-> "none", shown |-> "none"]

\* lines 1464-1480: a key that is not in the session state gets its default
session_defaults(q) ==
    IF q.extracted_cert_data = "absent" THEN [q EXCEPT !.extracted_cert_data = "None"] ELSE q

\* a run of the script up to tab 3
ScriptRun(q) == [session_defaults(q) EXCEPT !.clicked = "none", !.shown = "none"]

\* the API key is entered in, or removed from, the sidebar
SetApiKey ==
    /\ \E key \in BOOLEAN \ {qa.openai_api_key} :
          qa' = [ScriptRun(qa) EXCEPT !.openai_api_key = key]
    /\ UNCHANGED <<dir, disk, call, hist, fp, bd>>

\* lines 1927-1932: a certificate is chosen in the uploader, or removed
ChooseCertificate ==
    /\ \E file \in (CertFiles \cup {"none"}) \ {qa.cert_file} :
          qa' = [ScriptRun(qa) EXCEPT !.cert_file = file]
    /\ UNCHANGED <<dir, disk, call, hist, fp, bd>>

\* lines 1944-1960: Extract Data; extract_certificate_data returns the data
\* or shows an error and returns None (lines 1182-1289)
ExtractData ==
    /\ qa.cert_file # "none"
    /\ \E extracted \in BOOLEAN :
          LET q == [ScriptRun(qa) EXCEPT !.clicked = "Extract Data"]
          IN  qa' = IF ~q.openai_api_key THEN [q EXCEPT !.shown = "error"]
                    ELSE IF extracted
                    THEN [q EXCEPT !.extracted_cert_data = q.cert_file, !.shown = "extracted"]
                    ELSE [q EXCEPT !.shown = "error"]
    /\ UNCHANGED <<dir, disk, call, hist, fp, bd>>

\* lines 1966-1975: the data the click saves, and whether an error was shown
\* while getting it
CertDataToSave(q, extracted) ==
    IF q.extracted_cert_data # "absent"
    THEN [cert_data |-> q.extracted_cert_data, error |-> FALSE]
    ELSE IF q.openai_api_key
    THEN [cert_data |-> IF extracted THEN q.cert_file ELSE "None", error |-> ~extracted]
    ELSE [cert_data |-> "None", error |-> TRUE]

\* lines 1962-1989: Save to Database; a successful save rewrites the page
\* (st.rerun, line 1987), and the rerun starts with session_defaults
SaveToDatabase ==
    /\ qa.cert_file # "none"
    /\ Len(qa.certificates_data) < MaxSaves
    /\ \E extracted \in BOOLEAN, saved \in BOOLEAN :
          LET q == [ScriptRun(qa) EXCEPT !.clicked = "Save to Database"]
              got == CertDataToSave(q, extracted)
          IN  qa' = IF got.cert_data = "None"
                    THEN [q EXCEPT !.shown = IF got.error THEN "error" ELSE "nothing"]
                    ELSE IF saved
                    THEN session_defaults(
                             [q EXCEPT !.certificates_data = Append(@, got.cert_data),
                                       !.extracted_cert_data = "absent",
                                       !.shown = "saved"])
                    ELSE [q EXCEPT !.shown = "error"]
    /\ UNCHANGED <<dir, disk, call, hist, fp, bd>>

InitCert ==
    /\ Quiescent
    /\ fp = None
    /\ bd = None
    /\ qa = FreshCertSession

NextCert == SetApiKey \/ ChooseCertificate \/ ExtractData \/ SaveToDatabase

SpecCert == InitCert /\ [][NextCert]_vars

\* C30: in every session state, also when Extract Data was never clicked, a
\* click on Save to Database ends with the certificate record saved or with
\* an error message, never with nothing happening
C30_SaveNeverSilent ==
    qa.clicked = "Save to Database" => qa.shown \in {"saved", "error"}


(***************************************************************************)
(* streamlit_app.py: process_documents, run on the cache root and the      *)
(* documents directory that streamlit_app_prompt_assist.py uses as well    *)
(***************************************************************************)
MaxSharedEdits == 1  \* corpus edits in one behaviour of the two applications

\* the sessions of streamlit_app.py
AppSessions == {"app"}

\* pdf_reader.pages of a file of the corpus, whose pages hold text without
\* surrounding white space
CorpusPages(bytes) ==
    [i \in 1..Len(ReaderPages(bytes)) |->
        [len |-> ReaderPages(bytes)[i], strip |-> ReaderPages(bytes)[i], at |-> i]]

\* lines 417-424: docs and metadatas of the files listed
RECURSIVE AppDocs(_, _)
AppDocs(d, pdf_files) ==
    IF pdf_files = <<>> THEN <<>>
    ELSE process_uploaded_pdf(CorpusPages(d[Head(pdf_files)]), Head(pdf_files))
         \o AppDocs(d, Tail(pdf_files))

\* line 406
AppCall(a) ==
    /\ call[a].pc = "idle"
    /\ \E listing \in ListDir(dir) :
          call' = [call EXCEPT ![a] =
                      [@ EXCEPT !.pc = "check",
                                !.current_hash = compute_documents_hash_app(dir, listing),
                                !.start_dir = dir,
                                !.undisturbed = TRUE]]
    /\ UNCHANGED <<dir, disk, hist, fp, bd, qa>>

\* lines 407-414: the cache branch is taken when vectorstore.index and
\* documents_hash.txt exist and the stored fingerprint is the computed one;
\* load_vectorstore reads the index saved in the cache root
AppCheckCache(a) ==
    /\ call[a].pc = "check"
    /\ LET seen == [vectorstore_index |-> disk.vectorstore_index # None,
                    documents_hash |-> disk.documents_hash]
           cached == seen.vectorstore_index /\ seen.documents_hash # None
       IN  call' = [call EXCEPT ![a] =
                      IF cached /\ seen.documents_hash = call[a].current_hash
                      THEN IF LoadRaises(disk.index)
                           THEN Returning([@ EXCEPT !.seen = seen, !.load_raised = TRUE],
                                          "load_error", None)
                           ELSE Returning([@ EXCEPT !.seen = seen,
                                                    !.saved_hash = seen.documents_hash],
                                          "loaded", disk.index)
                      ELSE [@ EXCEPT !.seen = seen, !.pc = "build",
                                     !.saved_hash = IF cached THEN seen.documents_hash
                                                    ELSE None]]
    /\ UNCHANGED <<dir, disk, hist, fp, bd, qa>>

\* lines 416-426: every PDF listed is read, with no handler around the
\* reader, and FAISS.from_texts raises on an empty list of texts
AppBuild(a) ==
    /\ call[a].pc = "build"
    /\ \E listing \in ListDir(dir), embed_ok \in BOOLEAN :
          LET pdf_files == SelectSeq(listing, IsPdf)
              docs == AppDocs(dir, pdf_files)
              raised == \/ \E n \in Range(pdf_files) : ReaderRaises(dir[n])
                        \/ docs = <<>>
                        \/ ~embed_ok
          IN  call' = [call EXCEPT ![a] =
                         IF raised
                         THEN Returning([@ EXCEPT !.invoked = TRUE, !.built_from = dir,
                                                  !.fault = ~embed_ok],
                                        "build_error", None)
                         ELSE [@ EXCEPT !.invoked = TRUE, !.built_from = dir,
                                        !.pc = "save",
                                        !.ret = [entries |-> docs, from |-> dir,
                                                 corrupt |-> FALSE]]]
    /\ UNCHANGED <<dir, disk, hist, fp, bd, qa>>

\* line 427: save_local writes index.faiss and index.pkl into the cache root
AppSave(a) ==
    /\ call[a].pc = "save"
    /\ \E saved \in BOOLEAN :
          IF saved
          THEN /\ disk' = [disk EXCEPT !.index = call[a].ret]
               /\ call' = [Disturb(call, a) EXCEPT ![a] =
                              [@ EXCEPT !.pc = "write_hash",
                                        !.writes = Append(@, Written("index", call[a].ret))]]
               /\ hist' = [hist EXCEPT !.quiet = FALSE]
          ELSE /\ call' = [call EXCEPT ![a] =
                              Returning([@ EXCEPT !.fault = TRUE], "build_error", None)]
               /\ UNCHANGED <<disk, hist>>
    /\ UNCHANGED <<dir, fp, bd, qa>>

\* lines 428-430
AppWriteHash(a) ==
    /\ call[a].pc = "write_hash"
    /\ \E written \in BOOLEAN :
          IF written
          THEN /\ disk' = [disk EXCEPT !.documents_hash = call[a].current_hash]
               /\ call' = [Disturb(call, a) EXCEPT ![a] =
                              Returning([@ EXCEPT !.writes =
                                                      Append(@, Written("documents_hash.txt",
                                                                        call[a].current_hash))],
                                        "built", call[a].ret)]
               /\ hist' = [hist EXCEPT !.quiet = FALSE]
          ELSE /\ call' = [call EXCEPT ![a] =
                              Returning([@ EXCEPT !.fault = TRUE], "build_error", None)]
               /\ UNCHANGED <<disk, hist>>
    /\ UNCHANGED <<dir, fp, bd, qa>>

\* the next session of streamlit_app.py (st.session_state.vectorstore is None
\* again, line 669); in_succession tells that the session before built, saved
\* and wrote the fingerprint with nothing written to the documents directory
\* or the cache root since its call began
AppNewSession(a) ==
    /\ call[a].pc = "returned"
    /\ call' = [call EXCEPT ![a] =
                  [IdleFrame EXCEPT !.in_succession =
                                        call[a].result = "built" /\ call[a].undisturbed]]
    /\ UNCHANGED <<dir, disk, hist, fp, bd, qa>>

InitShared ==
    /\ dir \in InitialCorpora
    /\ disk = EmptyDisk
    /\ call = [s \in Sessions \cup AppSessions |-> IdleFrame]
    /\ hist = NoHistory
    /\ fp = None
    /\ bd = None
    /\ qa = None

\* a run of either application starts, and the corpus is edited, when no
\* run is under way
StartCall(s) == NoCallRunning /\ Call(s)

StartAppCall(a) == NoCallRunning /\ AppCall(a)

EditBetweenRuns ==
    NoCallRunning /\ hist.edits < MaxSharedEdits /\ (AddPdf \/ RemovePdf \/ ChangePdf)

NextShared ==
    \/ \E s \in Sessions :
          \/ StartCall(s) \/ CheckCache(s) \/ LoadDoc(s) \/ LoadChunk(s)
          \/ ListPdfs(s) \/ Build(s) \/ SaveDoc(s) \/ SaveChunk(s) \/ WriteHash(s)
          \/ Finish(s) \/ NewSession(s)
    \/ \E a \in AppSessions :
          \/ StartAppCall(a) \/ AppCheckCache(a) \/ AppBuild(a) \/ AppSave(a)
          \/ AppWriteHash(a) \/ AppNewSession(a)
    \/ EditBetweenRuns

SpecShared == InitShared /\ [][NextShared]_vars

\* C23: a call of process_documents that follows a call which built and
\* saved the index and wrote documents_hash.txt, with the documents
\* directory unchanged, takes the cache branch: it returns the index loaded
\* from disk and does not build
C23_AppSecondCallLoads ==
    \A a \in AppSessions :
        (call[a].pc = "returned" /\ call[a].in_succession) =>
            /\ call[a].result = "loaded"
            /\ ~call[a].invoked

\* C27: with runs of process_documents and process_documents_with_caching
\* and corpus edits between them in any order, indexes that
\* process_documents_with_caching returns loaded from disk were built from a
\* document set whose fingerprint is the one the call computed
C27_LoadedIndexesAreCurrent ==
    \A s \in Sessions :
        (/\ call[s].pc = "returned" /\ call[s].result = "loaded"
         /\ call[s].ret.doc_vectorstore.from = call[s].ret.chunk_vectorstore.from) =>
            /\ BuiltFromFingerprint(call[s].ret.doc_vectorstore, call[s].current_hash)
            /\ BuiltFromFingerprint(call[s].ret.chunk_vectorstore, call[s].current_hash)

====
